---- MODULE Spec2Model ----
(***************************************************************************)
(* CareerCraft API server (src/server/index.ts): the users collection, the *)
(* bearer-token gate, the account, profile and psychometric handlers and   *)
(* the cached AI portfolio / roadmap endpoints, as a state machine.        *)
(*                                                                         *)
(* Strings the code transforms (toLowerCase, trim) are sequences of one-   *)
(* character strings, so that the transformation is computed; all other    *)
(* strings are TLA+ strings.  An optional field is a sequence of length 0  *)
(* (absent) or 1 (present).                                                *)
(***************************************************************************)
EXTENDS Integers, Sequences, FiniteSets, Bags, TLC

VARIABLES
  users,    \* the users collection: id -> document, when there is one
  clock,    \* the time new Date() reads
  apiKey,   \* whether OPENAI_API_KEY is set in the process environment
  reqs,     \* the bag of requests that are suspended at an await
  resp,     \* the response sent last
  signups,  \* history: id -> the input and the reply of the signup that made it
  lastGen,  \* history: id -> slot -> the reply of the last generation stored
  lastRead, \* history: id -> the reply of the last portfolio read without refresh
  dirty,    \* history: id -> a portfolio was stored since that read
  page      \* the state of the psychometric test page in the visitor's browser

vars == <<users, clock, apiKey, reqs, resp, signups, lastGen, lastRead, dirty, page>>
\* What a request handler leaves alone unless it says otherwise: the history
\* variables and the page in the browser.
history == <<signups, lastGen, lastRead, dirty, page>>

\* ------------------------------------------------------------------ bounds
MaxUsers == 2
MaxReq == 2
MaxClock == 1

UserIds == 1..MaxUsers

\* ------------------------------------------------------- optional values
None == <<>>
Some(v) == <<v>>
IsSome(o) == Len(o) > 0
Get(o) == o[1]

\* ------------------------------------------------------------- strings
Str(n, c) == [i \in 1..n |-> c]

LowerChar(c) ==
  CASE c = "A" -> "a"
    [] c = "B" -> "b"
    [] c = "C" -> "c"
    [] c = "D" -> "d"
    [] c = "E" -> "e"
    [] c = "G" -> "g"
    [] c = "I" -> "i"
    [] c = "M" -> "m"
    [] c = "N" -> "n"
    [] c = "P" -> "p"
    [] c = "R" -> "r"
    [] c = "S" -> "s"
    [] c = "U" -> "u"
    [] c = "X" -> "x"
    [] OTHER -> c

ToLowerCase(s) == [i \in 1..Len(s) |-> LowerChar(s[i])]

IsSpace(c) == c = " "

RECURSIVE TrimStart(_)
TrimStart(s) ==
  IF Len(s) > 0 /\ IsSpace(Head(s)) THEN TrimStart(Tail(s)) ELSE s

RECURSIVE TrimEnd(_)
TrimEnd(s) ==
  IF Len(s) > 0 /\ IsSpace(s[Len(s)])
    THEN TrimEnd(SubSeq(s, 1, Len(s) - 1))
    ELSE s

Trim(s) == TrimEnd(TrimStart(s))

\* z.string().email(): one "@", a non-empty local part, and a domain whose
\* last dot has a label before it and at least two characters after it.
IsEmail(s) ==
  /\ Cardinality({i \in 1..Len(s) : s[i] = "@"}) = 1
  /\ LET at == CHOOSE i \in 1..Len(s) : s[i] = "@"
         dots == {i \in (at + 1)..Len(s) : s[i] = "."}
     IN /\ at > 1
        /\ dots # {}
        /\ LET d == CHOOSE i \in dots : \A j \in dots : j <= i
           IN d > at + 1 /\ Len(s) - d >= 2
  /\ \A i \in 1..Len(s) : ~IsSpace(s[i])

\* ------------------------------------------------------ program constants
MinPassword == 6
MinAnswers == 8
MaxAnswers == 10
MinFullName == 2
MinAge == 12
MaxAge == 100
MinSkills == 3
MaxSkills == 12
MinFocusAreas == 3
MaxFocusAreas == 12
MinProjects == 2
MaxProjects == 10
MinStages == 3
MaxStages == 8
MaxStageItems == 10
JobRolesLimit == 30
ScholarshipsLimit == 50
AI_MODEL == "gpt-4-turbo-preview"

\* --------------------------------------------------------------- bcrypt
\* bcrypt.hash(password, 10) and bcrypt.compare: the hash is one-way and
\* compare succeeds exactly for the password that was hashed.
BcryptHash(password) == [algo |-> "bcrypt", rounds |-> 10, of |-> password]
BcryptCompare(password, hash) == hash.of = password

\* --------------------------------------------------------------- tokens
\* A subject claim: a 24-digit hex string naming ObjectId n ("hex"), another
\* non-empty string ("text"), the empty string ("empty"), or no string at
\* all ("absent").
HexSub(n) == [t |-> "hex", n |-> n]
TextSub == [t |-> "text", n |-> 0]
EmptySub == [t |-> "empty", n |-> 0]
AbsentSub == [t |-> "absent", n |-> 0]

ToHexString(id) == HexSub(id)

\* new ObjectId(s) accepts a hex string and throws on anything else.
IsObjectIdString(s) == s.t = "hex"
ObjectIdOf(s) == s.n

signToken(id, email) ==
  [kind |-> "signed", sub |-> ToHexString(id), email |-> email]

\* ----------------------------------------------------------------- store
NoAi == [analysis |-> None, portfolio |-> None, roadmap |-> None]

NewUserDoc(email, passwordHash, now) ==
  [email |-> email, passwordHash |-> passwordHash,
   createdAt |-> now, updatedAt |-> now,
   profile |-> None, psychometric |-> None, ai |-> NoAi]

Exists(id) == id \in UserIds /\ IsSome(users[id])
Doc(id) == Get(users[id])

\* users.findOne({ email }) : the ids whose document has this email.
FindByEmail(email) == {id \in UserIds : Exists(id) /\ Doc(id).email = email}

FreeIds == {id \in UserIds : ~Exists(id)}

\* ------------------------------------------------------------- responses
\* A response: the endpoint, the status (0: none was sent), the body, the
\* store and provider operations the request performed, and the handler's
\* req.userId (0: none, or not an ObjectId) and refresh flag.
\* A request that came without a token of interest.
NoToken == [kind |-> "none", sub |-> AbsentSub, email |-> <<>>]
NoCtx == [uid |-> 0, refresh |-> FALSE, token |-> NoToken]
NoResponse == [op |-> "none", status |-> 0, body |-> None, ops |-> <<>>, ctx |-> NoCtx]

Reply(op, status, body, ops, ctx) ==
  [op |-> op, status |-> status, body |-> Some(body), ops |-> ops, ctx |-> ctx]

\* At most MaxReq requests are suspended at a time.
CanSuspend == BagCardinality(reqs) < MaxReq
Suspend(q) == reqs (+) SetToBag({q})
\* A request that stays suspended after its step: it is tried again.
ResumeRetried(q) == reqs
Resume(q) == reqs (-) SetToBag({q})
Suspended == BagToSet(reqs)

\* A signup waiting for insertOne, and a portfolio or roadmap request
\* waiting for the completion.
SignupPending(body) ==
  [pc |-> "insert", op |-> "signup", id |-> 0, ctx |-> NoCtx,
   ops |-> <<"createIndex">>, body |-> Some(body),
   passwordHash |-> Some(BcryptHash(body.password))]

GenPending(op, id, ctx, ops) ==
  [pc |-> "provider", op |-> op, id |-> id, ctx |-> ctx, ops |-> ops,
   body |-> None, passwordHash |-> None]

\* ---------------------------------------------------------------- signup
signupSchema(body) ==
  /\ IsEmail(body.email)
  /\ Len(body.password) >= MinPassword

loginSchema(body) ==
  /\ IsEmail(body.email)
  /\ Len(body.password) >= MinPassword

\* POST /auth/signup up to the insert: validation, getUsersCollection and
\* bcrypt.hash.
SignupStart(body) ==
  /\ CanSuspend
  /\ IF ~signupSchema(body)
       THEN /\ resp' = Reply("signup", 400, [error |-> "Invalid input", details |-> "flatten"], <<>>, NoCtx)
            /\ UNCHANGED reqs
       ELSE /\ reqs' = Suspend(SignupPending(body))
            /\ UNCHANGED resp
  /\ UNCHANGED <<users, clock, apiKey, history>>

\* A collection without the unique index: insertOne never fails with E11000.
DuplicateKeyNever(email) == FALSE

\* The unique index on email: insertOne fails with E11000 when a document
\* with the same email is in the collection.
DuplicateKey(email) == FindByEmail(email) # {}

\* The email stored as it was typed.
SignupEmailAsTyped(email) == email

\* The email the handler stores and returns.
SignupEmail(email) == ToLowerCase(email)

\* users.insertOne and the response of POST /auth/signup.
SignupInsert(q) ==
  /\ q \in Suspended
  /\ q.op = "signup"
  /\ LET body == Get(q.body)
         email == SignupEmail(body.email)
         ops == Append(q.ops, "insertOne")
     IN IF DuplicateKey(email)
          THEN /\ resp' = Reply("signup", 409, [error |-> "Email already exists"], ops, NoCtx)
               /\ UNCHANGED <<users, signups>>
          ELSE /\ FreeIds # {}
               /\ LET id == CHOOSE i \in FreeIds : \A j \in FreeIds : i <= j
                      user == [id |-> ToHexString(id), email |-> email]
                  IN /\ users' = [users EXCEPT ![id] =
                            Some(NewUserDoc(email, Get(q.passwordHash), clock))]
                     /\ resp' = Reply("signup", 201,
                            [token |-> signToken(id, email), user |-> user],
                            ops, NoCtx)
                     /\ signups' = [signups EXCEPT ![id] =
                            Some([email |-> body.email, password |-> body.password,
                                  user |-> user])]
  /\ reqs' = Resume(q)
  /\ UNCHANGED <<clock, apiKey, lastGen, lastRead, dirty, page>>

\* ----------------------------------------------------------------- login
\* The lookup with the email as it was typed.
LoginLookupAsTyped(email) == FindByEmail(email)

\* users.findOne({ email: email.toLowerCase() })
LoginLookup(email) == FindByEmail(ToLowerCase(email))

\* A 401 that tells an unknown email from a wrong password.
LoginFailureTelling(found) ==
  IF found = {} THEN [error |-> "User not found"]
                ELSE [error |-> "Invalid email or password"]

\* The body of the 401 of POST /auth/login, for an unknown email (found is
\* empty) and for a wrong password.
LoginFailure(found) == [error |-> "Invalid email or password"]

\* POST /auth/login: one findOne, then bcrypt.compare.  ctx.uid is the
\* document findOne returned, 0 when it returned none.
Login(body) ==
  /\ IF ~loginSchema(body)
       THEN resp' = Reply("login", 400, [error |-> "Invalid input", details |-> "flatten"], <<>>, NoCtx)
       ELSE LET found == LoginLookup(body.email)
                ops == <<"createIndex", "findOne">>
            IN IF found = {}
                 THEN resp' = Reply("login", 401, LoginFailure(found), ops, NoCtx)
                 ELSE LET id == CHOOSE i \in found : TRUE
                          user == Doc(id)
                          ctx == [NoCtx EXCEPT !.uid = id]
                      IN IF ~BcryptCompare(body.password, user.passwordHash)
                           THEN resp' = Reply("login", 401, LoginFailure(found), ops, ctx)
                           ELSE resp' = Reply("login", 200,
                                  [token |-> signToken(id, user.email),
                                   user |-> [id |-> ToHexString(id),
                                             email |-> user.email]],
                                  ops, ctx)
  /\ UNCHANGED <<users, clock, apiKey, reqs, history>>

\* ------------------------------------------------------------------ auth
\* jwt.verify(token, JWT_SECRET): throws unless the token is well formed,
\* signed with the secret and not expired.
JwtVerifies(token) == token.kind = "signed"

\* auth without its test of the subject.
authAnySubject(token) ==
  IF token.kind = "noheader"
    THEN [ok |-> FALSE, error |-> "Missing Authorization header", userId |-> AbsentSub]
    ELSE IF ~JwtVerifies(token)
      THEN [ok |-> FALSE, error |-> "Invalid token", userId |-> AbsentSub]
      ELSE [ok |-> TRUE, error |-> "", userId |-> token.sub]

\* The auth middleware: ok and the userId it sets, or the 401 it answers.
auth(token) ==
  IF token.kind = "noheader"
    THEN [ok |-> FALSE, error |-> "Missing Authorization header", userId |-> AbsentSub]
    ELSE IF ~JwtVerifies(token)
      THEN [ok |-> FALSE, error |-> "Invalid token", userId |-> AbsentSub]
      ELSE IF token.sub.t = "absent" \/ token.sub.t = "empty"
        THEN [ok |-> FALSE, error |-> "Invalid token", userId |-> AbsentSub]
        ELSE [ok |-> TRUE, error |-> "", userId |-> token.sub]

Rejected(op, a, ctx) == resp' = Reply(op, 401, [error |-> a.error], <<>>, ctx)

\* An exception that leaves an async handler: the global error handler
\* answers 500 when the router forwards rejected promises, and otherwise
\* the rejection is only logged and the request gets no response.
Throws(op, message, ops, ctx) ==
  \E forwarded \in BOOLEAN :
    resp' = IF forwarded
              THEN Reply(op, 500, [error |-> message], ops, ctx)
              ELSE [op |-> op, status |-> 0, body |-> None, ops |-> ops, ctx |-> ctx]

\* An answer that reports the missing account as an empty success.
NotFoundAsOk(op, ops, ctx) == Reply(op, 200, [ok |-> TRUE], ops, ctx)

\* res.status(404).json({ error: "User not found" })
NotFound(op, ops, ctx) == Reply(op, 404, [error |-> "User not found"], ops, ctx)

\* The request a handler works on: the token it came with, req.userId as
\* an ObjectId once auth has set it and when it is one, and the refresh flag.
Ctx(token, a, refresh) ==
  [uid |-> IF a.ok /\ IsObjectIdString(a.userId) THEN ObjectIdOf(a.userId) ELSE 0,
   refresh |-> refresh,
   token |-> token]

\* -------------------------------------------------------------------- me
\* The document as the projection leaves it: without the password hash,
\* with the psychometric answers and the ai bundle.
MeBodyProjected(id, user) ==
  [user |-> [id |-> ToHexString(id),
             email |-> user.email,
             profile |-> user.profile,
             psychometric |-> user.psychometric,
             ai |-> user.ai]]

MeBody(id, user) ==
  [user |-> [id |-> ToHexString(id),
             email |-> user.email,
             profile |-> user.profile,
             psychometric |->
               IF IsSome(user.psychometric)
                 THEN Some([submittedAt |-> Get(user.psychometric).submittedAt])
                 ELSE None]]

\* GET /me
Me(token) ==
  /\ LET a == auth(token)
         ctx == Ctx(token, a, FALSE)
     IN IF ~a.ok
          THEN Rejected("me", a, ctx)
          ELSE IF ~IsObjectIdString(a.userId)
            THEN Throws("me", "BSONError", <<"createIndex">>, ctx)
            ELSE LET id == ObjectIdOf(a.userId)
                     ops == <<"createIndex", "findOne">>
                 IN IF ~Exists(id)
                      THEN resp' = NotFound("me", ops, ctx)
                      ELSE resp' = Reply("me", 200, MeBody(id, Doc(id)), ops, ctx)
  /\ UNCHANGED <<users, clock, apiKey, reqs, history>>

\* --------------------------------------------------------------- profile
\* "Middle School", "High School", "Diploma", "Undergraduate", "Postgraduate",
\* each written as two characters.
EducationLevels ==
  {<<"M", "S">>, <<"H", "S">>, <<"D", "i">>, <<"U", "G">>, <<"P", "G">>}

profileSchema(body) ==
  /\ Len(Trim(body.fullName)) >= MinFullName
  /\ body.age >= MinAge
  /\ body.age <= MaxAge
  /\ body.educationLevel \in EducationLevels
  /\ Len(body.interests) >= 1
  /\ \A i \in 1..Len(body.interests) : Len(Trim(body.interests[i])) >= 1

\* parsed.data of profileSchema: the strings come out trimmed.
profileData(body) ==
  [fullName |-> Trim(body.fullName),
   age |-> body.age,
   educationLevel |-> body.educationLevel,
   interests |-> [i \in 1..Len(body.interests) |-> Trim(body.interests[i])]]

\* A $set of the single fields of the profile: the interests already
\* stored stay in front of the new ones.
SetProfileMerged(id, data, now) ==
  [users EXCEPT ![id] =
     Some([Doc(id) EXCEPT
             !.profile =
               Some(IF IsSome(Doc(id).profile)
                      THEN [data EXCEPT
                              !.interests = Get(Doc(id).profile).interests \o @]
                      ELSE data),
             !.updatedAt = now])]

\* A profile save that also clears the stored portfolio and roadmap.
SetProfileInvalidating(id, data, now) ==
  [users EXCEPT ![id] =
     Some([Doc(id) EXCEPT !.profile = Some(data), !.updatedAt = now,
                          !.ai.portfolio = None, !.ai.roadmap = None])]

SetProfile(id, data, now) ==
  [users EXCEPT ![id] =
     Some([Doc(id) EXCEPT !.profile = Some(data), !.updatedAt = now])]

\* POST /user/profile
SaveProfile(token, body) ==
  /\ LET a == auth(token)
         ctx == Ctx(token, a, FALSE)
     IN IF ~a.ok
          THEN Rejected("profile", a, ctx) /\ UNCHANGED users
          ELSE IF ~profileSchema(body)
            THEN /\ resp' = Reply("profile", 400, [error |-> "Invalid input", details |-> "flatten"], <<>>, ctx)
                 /\ UNCHANGED users
            ELSE IF ~IsObjectIdString(a.userId)
              THEN Throws("profile", "BSONError", <<"createIndex">>, ctx) /\ UNCHANGED users
              ELSE LET id == ObjectIdOf(a.userId)
                       ops == <<"createIndex", "updateOne">>
                   IN IF ~Exists(id)
                        THEN /\ resp' = NotFound("profile", ops, ctx)
                             /\ UNCHANGED users
                        ELSE /\ users' = SetProfile(id, profileData(body), clock)
                             /\ resp' = Reply("profile", 200, [ok |-> TRUE], ops, ctx)
  /\ UNCHANGED <<clock, apiKey, reqs, history>>

\* ---------------------------------------------------------- psychometric
\* The count test without its upper limit.
AnswerCountAtLeast(n) == n >= MinAnswers

\* z.record(z.string().min(1)) and the superRefine on the number of keys.
AnswerCountOk(n) == n >= MinAnswers /\ n <= MaxAnswers

psychometricSchema(body) ==
  /\ \A q \in DOMAIN body.answers : body.answers[q] # ""
  /\ AnswerCountOk(Cardinality(DOMAIN body.answers))

SetPsychometric(id, answers, now) ==
  [users EXCEPT ![id] =
     Some([Doc(id) EXCEPT
             !.psychometric = Some([answers |-> answers, submittedAt |-> now]),
             !.updatedAt = now])]

\* The handler of POST /user/psychometric.
PsychometricHandler(token, body) ==
  /\ LET a == auth(token)
         ctx == Ctx(token, a, FALSE)
     IN IF ~a.ok
          THEN Rejected("psychometric", a, ctx) /\ UNCHANGED users
          ELSE IF ~psychometricSchema(body)
            THEN /\ resp' = Reply("psychometric", 400, [error |-> "Invalid input", details |-> "flatten"], <<>>, ctx)
                 /\ UNCHANGED users
            ELSE IF ~IsObjectIdString(a.userId)
              THEN Throws("psychometric", "BSONError", <<"createIndex">>, ctx) /\ UNCHANGED users
              ELSE LET id == ObjectIdOf(a.userId)
                       ops == <<"createIndex", "updateOne">>
                   IN IF ~Exists(id)
                        THEN /\ resp' = NotFound("psychometric", ops, ctx)
                             /\ UNCHANGED users
                        ELSE /\ users' = SetPsychometric(id, body.answers, clock)
                             /\ resp' = Reply("psychometric", 200, [ok |-> TRUE], ops, ctx)
  /\ UNCHANGED <<clock, apiKey, reqs>>

\* POST /user/psychometric
SavePsychometric(token, body) ==
  /\ PsychometricHandler(token, body)
  /\ UNCHANGED history

\* -------------------------------------------------------------- analysis
\* POST /ai/analyze stores the analysis the portfolio, roadmap and catalog
\* endpoints read.
SetAnalysis(id, analysis) ==
  [users EXCEPT ![id] = Some([Doc(id) EXCEPT !.ai.analysis = Some(analysis)])]

AnalysisStep(id, analysis) ==
  /\ Exists(id)
  /\ users' = SetAnalysis(id, analysis)
  /\ UNCHANGED <<clock, apiKey, reqs, resp, history>>

\* ------------------------------------------------------------ ai schemas
NonEmptyStrings(xs) == \A i \in 1..Len(xs) : xs[i] # ""

\* The portfolio schema without the upper limit of suggestedProjects.
aiPortfolioSchemaUncapped(json) ==
  /\ json.strengthSummary # ""
  /\ Len(json.recommendedSkills) >= MinSkills
  /\ Len(json.recommendedSkills) <= MaxSkills
  /\ NonEmptyStrings(json.recommendedSkills)
  /\ Len(json.learningFocusAreas) >= MinFocusAreas
  /\ Len(json.learningFocusAreas) <= MaxFocusAreas
  /\ NonEmptyStrings(json.learningFocusAreas)
  /\ Len(json.suggestedProjects) >= MinProjects
  /\ NonEmptyStrings(json.suggestedProjects)

aiPortfolioSchema(json) ==
  /\ json.strengthSummary # ""
  /\ Len(json.recommendedSkills) >= MinSkills
  /\ Len(json.recommendedSkills) <= MaxSkills
  /\ NonEmptyStrings(json.recommendedSkills)
  /\ Len(json.learningFocusAreas) >= MinFocusAreas
  /\ Len(json.learningFocusAreas) <= MaxFocusAreas
  /\ NonEmptyStrings(json.learningFocusAreas)
  /\ Len(json.suggestedProjects) >= MinProjects
  /\ Len(json.suggestedProjects) <= MaxProjects
  /\ NonEmptyStrings(json.suggestedProjects)

\* parsed.data: z.object keeps the declared keys and drops the others.
aiPortfolioData(json) ==
  [strengthSummary |-> json.strengthSummary,
   recommendedSkills |-> json.recommendedSkills,
   learningFocusAreas |-> json.learningFocusAreas,
   suggestedProjects |-> json.suggestedProjects]

StageOk(st) ==
  /\ st.stage # ""
  /\ Len(st.whatToStudy) >= 1 /\ Len(st.whatToStudy) <= MaxStageItems
  /\ NonEmptyStrings(st.whatToStudy)
  /\ Len(st.skillsToLearn) >= 1 /\ Len(st.skillsToLearn) <= MaxStageItems
  /\ NonEmptyStrings(st.skillsToLearn)
  /\ Len(st.certifications) <= MaxStageItems
  /\ NonEmptyStrings(st.certifications)
  /\ Len(st.projects) >= 1 /\ Len(st.projects) <= MaxStageItems
  /\ NonEmptyStrings(st.projects)
  /\ Len(st.internships) <= MaxStageItems
  /\ NonEmptyStrings(st.internships)

aiRoadmapSchema(json) ==
  /\ json.primaryDomain # ""
  /\ Len(json.stages) >= MinStages
  /\ Len(json.stages) <= MaxStages
  /\ \A i \in 1..Len(json.stages) : StageOk(json.stages[i])
  /\ json.notes # ""

aiRoadmapData(json) ==
  [primaryDomain |-> json.primaryDomain,
   stages |-> json.stages,
   notes |-> json.notes]

SchemaOk(op, json) ==
  IF op = "portfolio" THEN aiPortfolioSchema(json) ELSE aiRoadmapSchema(json)

ParsedData(op, json) ==
  IF op = "portfolio" THEN aiPortfolioData(json) ELSE aiRoadmapData(json)

\* ------------------------------------------------------- query parameters
\* qString: the trimmed value of a string parameter, absent when blank.
qString(v) ==
  IF IsSome(v) /\ Len(Trim(Get(v))) > 0 THEN Some(Trim(Get(v))) ELSE None

normalizeTag(s) == ToLowerCase(Trim(s))

IsRefresh(param) == qString(param) = Some(<<"1">>)

\* --------------------------------------------------- portfolio and roadmap
\* The cached slot of a user document; op is "portfolio" or "roadmap".
SlotOf(user, op) ==
  IF op = "portfolio" THEN user.ai.portfolio ELSE user.ai.roadmap

ResultBody(op, model, createdAt, data) ==
  IF op = "portfolio"
    THEN [model |-> model, createdAt |-> createdAt, portfolio |-> data]
    ELSE [model |-> model, createdAt |-> createdAt, roadmap |-> data]

\* A cached read stamped with the time of the read.
CachedBodyNow(op, entry) == ResultBody(op, entry.model, clock, entry.data)

\* The body of a read served from the cache.
CachedBody(op, entry) == ResultBody(op, entry.model, entry.createdAt, entry.data)

\* The cache test with the refresh flag inverted.
CacheHitOnRefresh(refresh, cached) == refresh /\ IsSome(cached)

\* The cache test without the refresh flag.
CacheHitAlways(refresh, cached) == IsSome(cached)

\* if (!refresh && user.ai?.<slot>?.data)
CacheHit(refresh, cached) == ~refresh /\ IsSome(cached)

\* The document gates with the analysis tested before the psychometric.
PrerequisiteErrorSwapped(user) ==
  IF ~IsSome(user.profile)
    THEN Some("Profile is missing. Save /user/profile first.")
    ELSE IF ~IsSome(user.ai.analysis)
      THEN Some("AI analysis is missing. Run POST /ai/analyze first.")
      ELSE IF ~IsSome(user.psychometric)
        THEN Some("Psychometric answers are missing. Save /user/psychometric first.")
        ELSE None

\* The document gates without the test of the analysis.
PrerequisiteErrorNoAnalysis(user) ==
  IF ~IsSome(user.profile)
    THEN Some("Profile is missing. Save /user/profile first.")
    ELSE IF ~IsSome(user.psychometric)
      THEN Some("Psychometric answers are missing. Save /user/psychometric first.")
      ELSE None

\* The three document gates, in the order the handler tests them.
PrerequisiteError(user) ==
  IF ~IsSome(user.profile)
    THEN Some("Profile is missing. Save /user/profile first.")
    ELSE IF ~IsSome(user.psychometric)
      THEN Some("Psychometric answers are missing. Save /user/psychometric first.")
      ELSE IF ~IsSome(user.ai.analysis)
        THEN Some("AI analysis is missing. Run POST /ai/analyze first.")
        ELSE None

\* getOpenAIClient throws without OPENAI_API_KEY.
ClientConfigured == apiKey

\* The history of the portfolio reads without refresh: a successful one
\* becomes the last read, and a stored portfolio marks the last read dirty.
NoteRead(op, ctx, body, wrote) ==
  IF op = "portfolio" /\ ~ctx.refresh
    THEN /\ lastRead' = [lastRead EXCEPT ![ctx.uid] = Some(body)]
         /\ dirty' = [dirty EXCEPT ![ctx.uid] = FALSE]
    ELSE /\ UNCHANGED lastRead
         /\ dirty' = IF op = "portfolio" /\ wrote
                       THEN [dirty EXCEPT ![ctx.uid] = TRUE]
                       ELSE dirty

\* GET /ai/portfolio and GET /ai/career-roadmap up to the provider call:
\* auth, findOne, the cache test and the gates.
GenStart(op, token, param) ==
  /\ CanSuspend
  /\ LET a == auth(token)
         refresh == IsRefresh(param)
         ctx == Ctx(token, a, refresh)
     IN IF ~a.ok
          THEN Rejected(op, a, ctx) /\ UNCHANGED <<reqs, lastRead, dirty>>
          ELSE IF ~IsObjectIdString(a.userId)
            THEN /\ Throws(op, "BSONError", <<"createIndex">>, ctx)
                 /\ UNCHANGED <<reqs, lastRead, dirty>>
            ELSE LET id == ObjectIdOf(a.userId)
                     ops == <<"createIndex", "findOne">>
                 IN IF ~Exists(id)
                      THEN /\ resp' = NotFound(op, ops, ctx)
                           /\ UNCHANGED <<reqs, lastRead, dirty>>
                      ELSE LET user == Doc(id)
                               cached == SlotOf(user, op)
                               missing == PrerequisiteError(user)
                           IN IF CacheHit(refresh, cached)
                                THEN LET body == CachedBody(op, Get(cached))
                                     IN /\ resp' = Reply(op, 200, body, ops, ctx)
                                        /\ NoteRead(op, ctx, body, FALSE)
                                        /\ UNCHANGED reqs
                                ELSE IF IsSome(missing)
                                  THEN /\ resp' = Reply(op, 400, [error |-> Get(missing)], ops, ctx)
                                       /\ UNCHANGED <<reqs, lastRead, dirty>>
                                  ELSE IF ~ClientConfigured
                                    THEN /\ resp' = Reply(op, 500,
                                              [error |-> "OpenAI API key not configured"],
                                              ops, ctx)
                                         /\ UNCHANGED <<reqs, lastRead, dirty>>
                                    ELSE /\ reqs' = Suspend(GenPending(op, id, ctx,
                                                              Append(ops, "provider")))
                                         /\ UNCHANGED <<resp, lastRead, dirty>>
  /\ UNCHANGED <<users, clock, apiKey, signups, lastGen, page>>

PortfolioStart(token, param) == GenStart("portfolio", token, param)
RoadmapStart(token, param) == GenStart("roadmap", token, param)

\* A write that sets the data and the model of a filled slot and keeps its
\* createdAt.
SetSlotMerged(id, op, entry, now) ==
  IF ~Exists(id)
    THEN users
    ELSE LET old == IF op = "portfolio" THEN Doc(id).ai.portfolio ELSE Doc(id).ai.roadmap
             new == IF IsSome(old)
                      THEN [entry EXCEPT !.createdAt = Get(old).createdAt]
                      ELSE entry
         IN [users EXCEPT ![id] =
              Some(IF op = "portfolio"
                     THEN [Doc(id) EXCEPT !.ai.portfolio = Some(new), !.updatedAt = now]
                     ELSE [Doc(id) EXCEPT !.ai.roadmap = Some(new), !.updatedAt = now])]

\* A $set of the whole ai object with the one slot in it.
SetSlotWholeBundle(id, op, entry, now) ==
  IF ~Exists(id)
    THEN users
    ELSE [users EXCEPT ![id] =
           Some([Doc(id) EXCEPT
                   !.ai = IF op = "portfolio"
                            THEN [NoAi EXCEPT !.portfolio = Some(entry)]
                            ELSE [NoAi EXCEPT !.roadmap = Some(entry)],
                   !.updatedAt = now])]

\* $set of "ai.<slot>" and updatedAt; a filter that matches no document
\* changes nothing.
SetSlot(id, op, entry, now) ==
  IF ~Exists(id)
    THEN users
    ELSE [users EXCEPT ![id] =
           Some(IF op = "portfolio"
                  THEN [Doc(id) EXCEPT !.ai.portfolio = Some(entry), !.updatedAt = now]
                  ELSE [Doc(id) EXCEPT !.ai.roadmap = Some(entry), !.updatedAt = now])]

\* What the handler stores after a validated completion.
SlotEntry(data, now) == [data |-> data, createdAt |-> now, model |-> AI_MODEL]

\* The checks without the validation of the JSON value.
GenerationFailureUnvalidated(op, out) ==
  IF out.thrown
    THEN Some([error |-> IF IsSome(out.message) THEN Get(out.message)
                                               ELSE "OpenAI request failed"])
    ELSE IF ~IsSome(out.content) \/ Get(out.content).raw = ""
      THEN Some([error |-> "AI returned an empty response"])
      ELSE IF ~IsSome(Get(out.content).json)
        THEN Some([error |-> "AI returned non-JSON output", raw |-> Get(out.content).raw])
        ELSE None

\* The checks with JSON.parse tried before the test of the content.
GenerationFailureParseFirst(op, out) ==
  IF out.thrown
    THEN Some([error |-> IF IsSome(out.message) THEN Get(out.message)
                                               ELSE "OpenAI request failed"])
    ELSE IF IsSome(out.content) /\ ~IsSome(Get(out.content).json)
      THEN Some([error |-> "AI returned non-JSON output", raw |-> Get(out.content).raw])
      ELSE IF ~IsSome(out.content) \/ Get(out.content).raw = ""
        THEN Some([error |-> "AI returned an empty response"])
        ELSE IF ~SchemaOk(op, Get(Get(out.content).json))
          THEN Some([error |-> "AI output did not match expected schema",
                     details |-> "flatten"])
          ELSE None

\* The body of the 502 the handler answers for what the completion call
\* did, or None when the completion passes every check.  out.thrown is an
\* exception of the call, with the message of the Error when it is one;
\* out.content is choices[0]?.message?.content, a string with the value
\* JSON.parse makes of it when it is JSON text.
GenerationFailure(op, out) ==
  IF out.thrown
    THEN Some([error |-> IF IsSome(out.message) THEN Get(out.message)
                                               ELSE "OpenAI request failed"])
    ELSE IF ~IsSome(out.content) \/ Get(out.content).raw = ""
      THEN Some([error |-> "AI returned an empty response"])
      ELSE IF ~IsSome(Get(out.content).json)
        THEN Some([error |-> "AI returned non-JSON output", raw |-> Get(out.content).raw])
        ELSE IF ~SchemaOk(op, Get(Get(out.content).json))
          THEN Some([error |-> "AI output did not match expected schema",
                     details |-> "flatten"])
          ELSE None

\* The handler after the completion call: a 502 for a failed check, and
\* otherwise the write of the slot and the 200.
GenFinish(q, out) ==
  /\ q \in Suspended
  /\ q.pc = "provider"
  /\ LET op == q.op
         failure == GenerationFailure(op, out)
     IN IF IsSome(failure)
          THEN /\ resp' = Reply(op, 502, Get(failure), q.ops, q.ctx)
               /\ UNCHANGED <<users, history>>
          ELSE LET data == ParsedData(op, Get(Get(out.content).json))
                   now == clock
                   body == ResultBody(op, AI_MODEL, now, data)
               IN /\ users' = SetSlot(q.id, op, SlotEntry(data, now), now)
                  /\ resp' = Reply(op, 200, body, Append(q.ops, "updateOne"), q.ctx)
                  /\ lastGen' = [lastGen EXCEPT ![q.id] =
                       IF op = "portfolio"
                         THEN [@ EXCEPT !.portfolio = Some(body)]
                         ELSE [@ EXCEPT !.roadmap = Some(body)]]
                  /\ NoteRead(op, q.ctx, body, TRUE)
                  /\ UNCHANGED signups
  /\ reqs' = Resume(q)
  /\ UNCHANGED <<clock, apiKey, page>>

PortfolioFinish(q, out) == q.op = "portfolio" /\ GenFinish(q, out)

\* ---------------------------------------------------------- failing store
\* The seven routes behind auth.
PerUserOps ==
  {"me", "profile", "psychometric", "portfolio", "roadmap", "job-roles", "scholarships"}

\* err.message of the error a rejected store call carries.
StoreError == "MongoNetworkError"

\* A per-user handler whose first store call rejects, after auth and, for
\* the two POST handlers, after the validation of the body: findOne or
\* updateOne is awaited outside any try block, so the rejection leaves the
\* handler.
StoreRejects(op, token) ==
  /\ auth(token).ok
  /\ IsObjectIdString(auth(token).userId)
  /\ Throws(op, StoreError, <<"createIndex", "store rejects">>,
            Ctx(token, auth(token), FALSE))
  /\ UNCHANGED <<users, clock, apiKey, reqs, history>>

\* GET /ai/portfolio and GET /ai/career-roadmap after a completion that
\* passed every check, when updateOne rejects: the await is inside the try
\* block of the provider call, whose catch answers 502 with err.message.
GenFinishStoreRejects(q, out) ==
  /\ q \in Suspended
  /\ q.pc = "provider"
  /\ ~IsSome(GenerationFailure(q.op, out))
  /\ resp' = Reply(q.op, 502, [error |-> StoreError],
                   Append(q.ops, "store rejects"), q.ctx)
  /\ reqs' = Resume(q)
  /\ UNCHANGED <<users, clock, apiKey, history>>
RoadmapFinish(q, out) == q.op = "roadmap" /\ GenFinish(q, out)

\* --------------------------------------------------------------- catalogs
\* The job_roles and scholarships collections are reference data the server
\* only reads; their documents are listed in store order.
Eng == <<"E", "n", "g">>
Med == <<"M", "e", "d">>
Mech == <<"m", "e">>
Civil == <<"c", "i">>
Cs == <<"c", "s">>

JobRole(i) ==
  [id |-> i,
   title |-> "role",
   domain |-> IF i % 5 = 0 THEN Med ELSE Eng,
   salaryRangeInr |-> [min |-> 3, max |-> 9],
   requiredSkills |-> <<"skill">>,
   demandLevel |-> IF i % 2 = 0 THEN "High" ELSE "Medium",
   courseTags |-> CASE i % 4 = 0 -> None
                    [] i % 4 = 1 -> Some(<<Mech>>)
                    [] i % 4 = 2 -> Some(<<Civil, Mech>>)
                    [] OTHER -> Some(<<Cs>>)]

JobRolesCount == 40
JobRolesCol == [i \in 1..JobRolesCount |-> JobRole(i)]

Scholarship(i) ==
  [id |-> i,
   name |-> "scholarship",
   url |-> "url",
   courseTags |-> IF i % 3 = 0 THEN <<Cs>> ELSE <<Mech, Civil>>,
   category |-> IF i % 2 = 0 THEN Some(<<"M", "e", "r">>) ELSE None,
   academicLevel |-> IF i % 4 = 0 THEN <<"P", "G">> ELSE <<"U", "G">>,
   deadline |-> IF i % 2 = 0 THEN Some("2026-12-31") ELSE None,
   amountInr |-> IF i % 3 = 0 THEN Some([min |-> 1, max |-> 5]) ELSE None,
   eligibility |-> None]

ScholarshipsCount == 8
ScholarshipsCol == [i \in 1..ScholarshipsCount |-> Scholarship(i)]

\* find(filter).toArray(), without a limit
TakeAll(xs, n) == xs

\* find(filter).limit(n).toArray()
Take(xs, n) == SubSeq(xs, 1, IF Len(xs) < n THEN Len(xs) ELSE n)

Elems(xs) == {xs[i] : i \in 1..Len(xs)}

\* -------------------------------------------------------------- job roles
\* A filter that accepts a role on its domain or on its course tags.
\* The filter of GET /ai/job-roles: domain when there is one, and the
\* $or of one courseTags $in clause when there are course tags.
JobRoleMatchesEither(role, domain, courseTags) ==
  \/ (IsSome(domain) /\ Len(Get(domain)) > 0) => role.domain = Get(domain)
  \/ /\ IsSome(role.courseTags)
     /\ Elems(Get(role.courseTags)) \cap Elems(courseTags) # {}

JobRoleMatches(role, domain, courseTags) ==
  /\ (IsSome(domain) /\ Len(Get(domain)) > 0) => role.domain = Get(domain)
  /\ Len(courseTags) > 0 =>
       /\ IsSome(role.courseTags)
       /\ Elems(Get(role.courseTags)) \cap Elems(courseTags) # {}

JobRoleView(role) ==
  [id |-> role.id, title |-> role.title, domain |-> role.domain,
   salaryRangeInr |-> role.salaryRangeInr,
   requiredSkills |-> role.requiredSkills,
   demandLevel |-> role.demandLevel]

\* The analysis's domain first, the explicit parameter as the fallback.
EffectiveDomainAnalysisFirst(explicitDomain, analysis) ==
  IF IsSome(analysis) THEN Some(Get(analysis).primaryDomain) ELSE explicitDomain

EffectiveDomain(explicitDomain, analysis) ==
  IF IsSome(explicitDomain)
    THEN explicitDomain
    ELSE IF IsSome(analysis) THEN Some(Get(analysis).primaryDomain) ELSE None

EffectiveCourseTags(explicitCourse, analysis) ==
  LET courses == IF IsSome(analysis)
                   THEN [i \in 1..Len(Get(analysis).recommendedCourses) |->
                           Get(analysis).recommendedCourses[i].course]
                   ELSE <<>>
      all == explicitCourse \o courses
      kept == SelectSeq(all, LAMBDA x : Len(x) > 0)
  IN [i \in 1..Len(kept) |-> normalizeTag(kept[i])]

\* GET /ai/job-roles
JobRoles(token, domainParam, courseParam) ==
  /\ LET a == auth(token)
         ctx == Ctx(token, a, FALSE)
         explicitDomain == qString(domainParam)
         explicitCourse == qString(courseParam)
     IN IF ~a.ok
          THEN Rejected("job-roles", a, ctx)
          ELSE IF ~IsObjectIdString(a.userId)
            THEN Throws("job-roles", "BSONError", <<"createIndex">>, ctx)
            ELSE LET id == ObjectIdOf(a.userId)
                     ops == <<"createIndex", "findOne">>
                 IN IF ~Exists(id)
                      THEN resp' = NotFound("job-roles", ops, ctx)
                      ELSE LET analysis == Doc(id).ai.analysis
                           IN IF ~IsSome(analysis) /\ ~IsSome(explicitDomain)
                                 /\ ~IsSome(explicitCourse)
                                THEN resp' = Reply("job-roles", 400,
                                       [error |-> "AI analysis missing. Run POST /ai/analyze or pass ?domain= / ?course=."], ops, ctx)
                                ELSE \E domain \in {EffectiveDomain(explicitDomain, analysis)},
                                        courseTags \in {EffectiveCourseTags(explicitCourse, analysis)} :
                                     \E roles \in {Take(SelectSeq(JobRolesCol,
                                                    LAMBDA x : JobRoleMatches(x, domain, courseTags)),
                                                    JobRolesLimit)} :
                                        resp' = Reply("job-roles", 200,
                                          [domain |-> domain,
                                           count |-> Len(roles),
                                           jobRoles |-> [i \in 1..Len(roles) |-> JobRoleView(roles[i])]],
                                          Append(ops, "find"), ctx)
  /\ UNCHANGED <<users, clock, apiKey, reqs, history>>

\* ----------------------------------------------------------- scholarships
\* A filter without the category key.
ScholarshipMatchesAnyCategory(s, academicLevel, category, course) ==
  /\ s.academicLevel = academicLevel
  /\ (IsSome(course) /\ Len(Get(course)) > 0) =>
       normalizeTag(Get(course)) \in Elems(s.courseTags)

ScholarshipMatches(s, academicLevel, category, course) ==
  /\ s.academicLevel = academicLevel
  /\ IsSome(category) => s.category = category
  /\ (IsSome(course) /\ Len(Get(course)) > 0) =>
       normalizeTag(Get(course)) \in Elems(s.courseTags)

ScholarshipView(s) ==
  [id |-> s.id, name |-> s.name, url |-> s.url, category |-> s.category,
   academicLevel |-> s.academicLevel, deadline |-> s.deadline,
   amountInr |-> s.amountInr, eligibility |-> s.eligibility]

\* The analysis's first course before the explicit parameter.
EffectiveCourseAnalysisFirst(explicitCourse, analysis) ==
  IF IsSome(analysis) /\ Len(Get(analysis).recommendedCourses) > 0
    THEN Some(Get(analysis).recommendedCourses[1].course)
    ELSE explicitCourse

EffectiveCourse(explicitCourse, analysis) ==
  IF IsSome(explicitCourse)
    THEN explicitCourse
    ELSE IF IsSome(analysis) /\ Len(Get(analysis).recommendedCourses) > 0
      THEN Some(Get(analysis).recommendedCourses[1].course)
      ELSE None

\* The profile's level first, the explicit parameter as the fallback.
EffectiveAcademicLevelProfileFirst(explicitAcademicLevel, profile) ==
  IF IsSome(profile) THEN Some(Get(profile).educationLevel) ELSE explicitAcademicLevel

EffectiveAcademicLevel(explicitAcademicLevel, profile) ==
  IF IsSome(explicitAcademicLevel)
    THEN explicitAcademicLevel
    ELSE IF IsSome(profile) THEN Some(Get(profile).educationLevel) ELSE None

\* GET /scholarships
Scholarships(token, courseParam, categoryParam, levelParam) ==
  /\ LET a == auth(token)
         ctx == Ctx(token, a, FALSE)
         explicitCourse == qString(courseParam)
         explicitCategory == qString(categoryParam)
         explicitAcademicLevel == qString(levelParam)
     IN IF ~a.ok
          THEN Rejected("scholarships", a, ctx)
          ELSE IF ~IsObjectIdString(a.userId)
            THEN Throws("scholarships", "BSONError", <<"createIndex">>, ctx)
            ELSE LET id == ObjectIdOf(a.userId)
                     ops == <<"createIndex", "findOne">>
                 IN IF ~Exists(id)
                      THEN resp' = NotFound("scholarships", ops, ctx)
                      ELSE LET course == EffectiveCourse(explicitCourse, Doc(id).ai.analysis)
                               academicLevel ==
                                 EffectiveAcademicLevel(explicitAcademicLevel, Doc(id).profile)
                           IN IF ~IsSome(academicLevel)
                                THEN resp' = Reply("scholarships", 400,
                                       [error |-> "Academic level missing. Save /user/profile or pass ?academicLevel=."], ops, ctx)
                                ELSE \E items \in {Take(SelectSeq(ScholarshipsCol,
                                                    LAMBDA x : ScholarshipMatches(x,
                                                       Get(academicLevel), explicitCategory, course)),
                                                    ScholarshipsLimit)} :
                                        resp' = Reply("scholarships", 200,
                                          [filters |-> [course |-> course,
                                                        category |-> explicitCategory,
                                                        academicLevel |-> Get(academicLevel)],
                                           count |-> Len(items),
                                           scholarships |->
                                             [i \in 1..Len(items) |-> ScholarshipView(items[i])]],
                                          Append(ops, "find"), ctx)
  /\ UNCHANGED <<users, clock, apiKey, reqs, history>>

\* ------------------------------------------------- psychometric test page
\* questions.length: the page asks q1 .. q10.
Total == 10

MathMin(a, b) == IF a <= b THEN a ELSE b
MathMax(a, b) == IF a >= b THEN a ELSE b

\* The page after its first render.
PageInit ==
  [index |-> 0, answers |-> <<>>, touched |-> FALSE, done |-> FALSE,
   submitting |-> FALSE, submitError |-> None, pc |-> "idle", sent |-> None]

\* The question shown: questions[index], with q1 .. q10 numbered 1 .. 10.
CurrentQuestion == page.index + 1

\* { ...prev, [q.id]: choiceId }
PutAnswer(answers, q, choiceId) ==
  [k \in DOMAIN answers \cup {q} |-> IF k = q THEN choiceId ELSE answers[k]]

\* A page that lets the visitor go on without an answer.
AnsweredAlways(answers, q) == TRUE

\* answers[q.id] is truthy: the question has a choice that is not "".
Answered(answers, q) == q \in DOMAIN answers /\ answers[q] # ""

\* The page is mounted: it has not navigated to /results.
Mounted == page.pc # "results"

\* The question card with the choices, Back and Next is rendered.
QuestionShown == Mounted /\ ~page.done /\ page.index < Total

PageStep == UNCHANGED <<users, clock, apiKey, reqs, resp, signups, lastGen, lastRead, dirty>>

choose(choiceId) ==
  /\ QuestionShown
  /\ page' = [page EXCEPT !.answers = PutAnswer(@, CurrentQuestion, choiceId),
                          !.touched = FALSE]
  /\ PageStep

next ==
  /\ QuestionShown
  /\ page' = IF ~Answered(page.answers, CurrentQuestion)
               THEN [page EXCEPT !.touched = TRUE]
               ELSE IF page.index = Total - 1
                 THEN [page EXCEPT !.done = TRUE]
                 ELSE [page EXCEPT !.index = MathMin(page.index + 1, Total - 1)]
  /\ PageStep

\* The Back button is disabled on the first question.
back ==
  /\ QuestionShown
  /\ page.index # 0
  /\ page' = [page EXCEPT !.touched = FALSE, !.done = FALSE,
                          !.index = MathMax(page.index - 1, 0)]
  /\ PageStep

\* The Retake button is rendered when the test is done.
restart ==
  /\ Mounted
  /\ page.done
  /\ page' = [page EXCEPT !.answers = <<>>, !.touched = FALSE, !.done = FALSE,
                          !.index = 0]
  /\ PageStep

\* new Error(data.error) of fetchJson for a response that is not ok.
FetchError(r) == Get(r.body).error

\* res.ok
ResOk(r) == r.status >= 200 /\ r.status <= 299

\* The catch and finally blocks of continueToResults.
SubmitFailed(message) ==
  [page EXCEPT !.submitError = Some(message), !.submitting = FALSE,
               !.pc = "idle", !.sent = None]

\* continueToResults up to the fetch of apiSavePsychometric: the button is
\* rendered when the test is done and disabled while submitting; fetchJson
\* throws when localStorage holds no token.
continueToResults(token) ==
  /\ Mounted
  /\ page.done
  /\ ~page.submitting
  /\ page' = IF IsSome(token)
               THEN [page EXCEPT !.submitError = None, !.submitting = TRUE,
                                 !.pc = "save",
                                 !.sent = Some([token |-> Get(token),
                                                answers |-> page.answers])]
               ELSE SubmitFailed("Not authenticated")
  /\ PageStep

\* The server handles the POST /user/psychometric of continueToResults and
\* the page resumes: apiAnalyze is called when the response is ok, the catch
\* block runs otherwise.
SaveAnswered ==
  /\ page.pc = "save"
  /\ PsychometricHandler(Get(page.sent).token, [answers |-> Get(page.sent).answers])
  /\ page' = IF ResOk(resp')
               THEN [page EXCEPT !.pc = "analyze"]
               ELSE SubmitFailed(FetchError(resp'))
  /\ UNCHANGED <<signups, lastGen, lastRead, dirty>>

\* POST /ai/analyze answers the page: on success the analysis is stored and
\* the page navigates to /results, on failure the catch block runs.
AnalyzeAnswered(ok, analysis) ==
  /\ page.pc = "analyze"
  /\ IF ok
       THEN /\ users' = SetAnalysis(ObjectIdOf(Get(page.sent).token.sub), analysis)
            /\ page' = [page EXCEPT !.pc = "results", !.submitting = FALSE]
       ELSE /\ page' = SubmitFailed("Failed to generate results")
            /\ UNCHANGED users
  /\ UNCHANGED <<clock, apiKey, reqs, resp, signups, lastGen, lastRead, dirty>>

\* ----------------------------------------------------------------- clock
Tick ==
  /\ clock < MaxClock
  /\ clock' = clock + 1
  /\ UNCHANGED <<users, apiKey, reqs, resp, history>>

\* ------------------------------------------------------------------ init
Init ==
  /\ users = [id \in UserIds |-> None]
  /\ clock = 0
  /\ apiKey \in BOOLEAN
  /\ reqs = EmptyBag
  /\ resp = NoResponse
  /\ signups = [id \in UserIds |-> None]
  /\ page = PageInit
  /\ lastGen = [id \in UserIds |-> [portfolio |-> None, roadmap |-> None]]
  /\ lastRead = [id \in UserIds |-> None]
  /\ dirty = [id \in UserIds |-> FALSE]

\* ---------------------------------------------------------------- inputs
EmailA == <<"a", "@", "x", ".", "i", "o">>
EmailAUpper == <<"A", "@", "X", ".", "i", "o">>
EmailB == <<"b", "@", "x", ".", "i", "o">>
EmailBad == <<"a", "x", ".", "i", "o">>

Emails == {EmailA, EmailAUpper, EmailB, EmailBad}
Passwords == {Str(MinPassword, "p"), Str(MinPassword, "q"), Str(MinPassword - 1, "p")}
Credentials == [email : Emails, password : Passwords]
OneCredential == {[email |-> EmailA, password |-> Str(MinPassword, "p")]}

\* Authorization headers: none, a token jwt.verify rejects, or a signed
\* token with one of the subjects.
BadToken(kind) == [kind |-> kind, sub |-> AbsentSub, email |-> EmailA]
SignedToken(sub) == [kind |-> "signed", sub |-> sub, email |-> EmailA]

UnverifiedTokens == {BadToken(k) : k \in {"noheader", "malformed", "badsig", "expired"}}
NoSubjectTokens == {SignedToken(EmptySub), SignedToken(AbsentSub)}
UserTokens == {SignedToken(HexSub(n)) : n \in UserIds}
Tokens == UnverifiedTokens \cup NoSubjectTokens \cup {SignedToken(TextSub)} \cup UserTokens

ProfileA ==
  [fullName |-> <<"A", "s">>, age |-> 19, educationLevel |-> <<"U", "G">>,
   interests |-> <<(<<"c">>)>>]
ProfileB ==
  [fullName |-> <<" ", "R", "a", " ">>, age |-> MinAge, educationLevel |-> <<"P", "G">>,
   interests |-> <<(<<" ", "m">>), (<<"c">>)>>]

Answers(n, v) == [answers |-> [q \in 1..n |-> v]]

AnalysisA ==
  [primaryDomain |-> Eng,
   recommendedCourses |-> <<[course |-> <<"M", "e">>, reason |-> "r"],
                            [course |-> <<"C", "i", " ">>, reason |-> "r"]>>]

AnalysisB == [primaryDomain |-> Med, recommendedCourses |-> <<>>]

BundleAnswers == {Answers(MaxAnswers, "d")}

Rep(n, x) == [i \in 1..n |-> x]

Portfolio(summary, skills, focus, projects) ==
  [strengthSummary |-> summary,
   recommendedSkills |-> Rep(skills, "s"),
   learningFocusAreas |-> Rep(focus, "f"),
   suggestedProjects |-> Rep(projects, "p"),
   extra |-> "x"]

Stage ==
  [stage |-> "0-3 months", whatToStudy |-> <<"w">>, skillsToLearn |-> <<"k">>,
   certifications |-> <<>>, projects |-> <<"p">>, internships |-> <<>>]

Roadmap(stages, notes) ==
  [primaryDomain |-> "Engineering", stages |-> Rep(stages, Stage), notes |-> notes,
   extra |-> "x"]

\* What client.chat.completions.create did: it returned content that is
\* the JSON text of v, or it failed in one of these ways.
Completion(content) == [thrown |-> FALSE, message |-> None, content |-> content]
Json(v) == Completion(Some([raw |-> "json text", json |-> Some(v)]))
Failure(kind) ==
  CASE kind = "throw" ->
         [thrown |-> TRUE, message |-> Some("429 rate limit"), content |-> None]
    [] kind = "throwOther" ->
         [thrown |-> TRUE, message |-> None, content |-> None]
    [] kind = "empty" -> Completion(None)
    [] kind = "blank" -> Completion(Some([raw |-> "", json |-> None]))
    [] kind = "nonjson" -> Completion(Some([raw |-> "Sure! Here it is", json |-> None]))

NoParam == None
RefreshParamsAll == {None, Some(<<"1">>), Some(<<" ", "1">>), Some(<<"0">>)}

WithBlank(n) == [answers |-> [q \in 1..n |-> IF q = n THEN "" ELSE "c"]]
AnswerInputs ==
  {Answers(n, "c") : n \in (MinAnswers - 1)..(MaxAnswers + 1)}
    \cup {WithBlank(MinAnswers), WithBlank(MaxAnswers)}

ProfileBadName == [ProfileA EXCEPT !.fullName = <<" ", "A", " ">>]
ProfileBadAge == [ProfileA EXCEPT !.age = MaxAge + 1]
ProfileInputs == {ProfileA, ProfileB, ProfileBadName, ProfileBadAge}

PortfolioOne == Portfolio("one", MinSkills, MinFocusAreas, MinProjects)
PortfolioTwo == Portfolio("two", MaxSkills, MaxFocusAreas, MaxProjects)
PortfolioOutputs ==
  {Json(PortfolioOne), Json(PortfolioTwo),
   Json(Portfolio("one", MinSkills - 1, MinFocusAreas, MinProjects)),
   Failure("empty")}
RoadmapOne == Roadmap(MinStages, "one")
RoadmapOutputs ==
  {Json(RoadmapOne), Json(Roadmap(MinStages - 1, "one")), Failure("throw")}

\* The token of the seeded account.
AiTokens == {SignedToken(HexSub(1))}

\* The provider outcomes of the specification of the auth gate.
GateOutputs == {Failure("empty")}
GateProfiles == {ProfileA, ProfileBadAge}
GateAnswers == {Answers(MinAnswers, "c"), Answers(MinAnswers - 1, "c")}

\* The process started with OPENAI_API_KEY set.
InitConfigured == Init /\ apiKey = TRUE

NextAuth ==
  \/ \E body \in Credentials : SignupStart(body)
  \/ \E q \in Suspended : SignupInsert(q)
  \/ \E body \in Credentials : Login(body)

SpecAuth == InitConfigured /\ [][NextAuth]_vars

NextGate ==
  \/ \E body \in OneCredential : SignupStart(body)
  \/ \E q \in Suspended : SignupInsert(q)
  \/ \E token \in Tokens : Me(token)
  \/ \E token \in Tokens, body \in GateProfiles : SaveProfile(token, body)
  \/ \E token \in Tokens, body \in GateAnswers : SavePsychometric(token, body)
  \/ \E id \in UserIds : AnalysisStep(id, AnalysisA)
  \/ \E token \in Tokens : PortfolioStart(token, NoParam)
  \/ \E q \in Suspended, out \in GateOutputs : PortfolioFinish(q, out)
  \/ \E token \in Tokens : RoadmapStart(token, NoParam)
  \/ \E q \in Suspended, out \in GateOutputs : RoadmapFinish(q, out)
  \/ \E token \in Tokens : JobRoles(token, NoParam, NoParam)
  \/ \E token \in Tokens : Scholarships(token, NoParam, NoParam, NoParam)

SpecGate == InitConfigured /\ [][NextGate]_vars

\* The profile and psychometric handlers with all their inputs.
NextUser ==
  \/ \E body \in OneCredential : SignupStart(body)
  \/ \E q \in Suspended : SignupInsert(q)
  \/ \E token \in UserTokens : Me(token)
  \/ \E token \in UserTokens, body \in ProfileInputs : SaveProfile(token, body)
  \/ \E token \in UserTokens, body \in AnswerInputs : SavePsychometric(token, body)
  \/ Tick

SpecUser == InitConfigured /\ [][NextUser]_vars

\* The cached portfolio and roadmap endpoints with every provider outcome.
\* The process starts, with or without OPENAI_API_KEY, against the users
\* collection as earlier runs left it: one account, with or without its
\* profile, psychometric submission and analysis, and, when it has all
\* three, with or without a portfolio and a roadmap stored at time 0.
SeedUser(hasProfile, hasPsychometric, hasAnalysis, hasCache) ==
  [NewUserDoc(EmailA, BcryptHash(Str(MinPassword, "p")), 0) EXCEPT
     !.profile = IF hasProfile THEN Some(profileData(ProfileA)) ELSE None,
     !.psychometric =
        IF hasPsychometric
          THEN Some([answers |-> Answers(MinAnswers, "c").answers, submittedAt |-> 0])
          ELSE None,
     !.ai.analysis = IF hasAnalysis THEN Some(AnalysisA) ELSE None,
     !.ai.portfolio =
        IF hasCache THEN Some(SlotEntry(aiPortfolioData(PortfolioOne), 0)) ELSE None,
     !.ai.roadmap =
        IF hasCache THEN Some(SlotEntry(aiRoadmapData(RoadmapOne), 0)) ELSE None]

InitAi ==
  /\ \E p \in BOOLEAN, s \in BOOLEAN, a \in BOOLEAN, c \in BOOLEAN :
       /\ c => (p /\ s /\ a)
       /\ users = [id \in UserIds |->
                     IF id = 1 THEN Some(SeedUser(p, s, a, c)) ELSE None]
  /\ clock = 0
  /\ apiKey \in BOOLEAN
  /\ reqs = EmptyBag
  /\ resp = NoResponse
  /\ signups = [id \in UserIds |-> None]
  /\ page = PageInit
  /\ lastGen = [id \in UserIds |-> [portfolio |-> None, roadmap |-> None]]
  /\ lastRead = [id \in UserIds |-> None]
  /\ dirty = [id \in UserIds |-> FALSE]

NextAi ==
  \/ \E token \in AiTokens, param \in RefreshParamsAll : PortfolioStart(token, param)
  \/ \E q \in Suspended, out \in PortfolioOutputs : PortfolioFinish(q, out)
  \/ \E token \in AiTokens, param \in RefreshParamsAll : RoadmapStart(token, param)
  \/ \E q \in Suspended, out \in RoadmapOutputs : RoadmapFinish(q, out)
  \/ Tick

SpecAi == InitAi /\ [][NextAi]_vars

\* The portfolio and roadmap endpoints with everything the completion call
\* can do, from the same stores as SpecAi and at one time.
PortfolioInvalid == Portfolio("one", MinSkills - 1, MinFocusAreas, MinProjects)
RoadmapInvalid == Roadmap(MinStages - 1, "one")
ValidCompletions == {Json(PortfolioOne), Json(RoadmapOne)}
FailedCompletions ==
  {Failure(kind) : kind \in {"throw", "throwOther", "empty", "blank", "nonjson"}}
PortfolioCompletions ==
  {Json(PortfolioOne), Json(PortfolioInvalid)} \cup FailedCompletions
RoadmapCompletions ==
  {Json(RoadmapOne), Json(RoadmapInvalid)} \cup FailedCompletions
Completions(op) ==
  IF op = "portfolio" THEN PortfolioCompletions ELSE RoadmapCompletions
RefreshParams == {None, Some(<<"1">>)}

NextFail ==
  \/ \E token \in AiTokens, param \in RefreshParams : PortfolioStart(token, param)
  \/ \E q \in Suspended, out \in PortfolioCompletions : PortfolioFinish(q, out)
  \/ \E token \in AiTokens, param \in RefreshParams : RoadmapStart(token, param)
  \/ \E q \in Suspended, out \in RoadmapCompletions : RoadmapFinish(q, out)

SpecFail == InitAi /\ [][NextFail]_vars

\* The same endpoints with completions that are JSON values at and just
\* outside every limit of the two schemas.
PortfolioAtLimits == {PortfolioOne, PortfolioTwo}
PortfolioOffLimits ==
  {Portfolio("one", MinSkills - 1, MinFocusAreas, MinProjects),
   Portfolio("one", MaxSkills + 1, MinFocusAreas, MinProjects),
   Portfolio("one", MinSkills, MinFocusAreas - 1, MinProjects),
   Portfolio("one", MinSkills, MaxFocusAreas + 1, MinProjects),
   Portfolio("one", MinSkills, MinFocusAreas, MinProjects - 1),
   Portfolio("one", MinSkills, MinFocusAreas, MaxProjects + 1),
   Portfolio("", MinSkills, MinFocusAreas, MinProjects),
   [PortfolioOne EXCEPT !.recommendedSkills[1] = ""],
   [PortfolioOne EXCEPT !.learningFocusAreas[1] = ""],
   [PortfolioOne EXCEPT !.suggestedProjects[1] = ""]}
RoadmapAtLimits == {RoadmapOne, Roadmap(MaxStages, "two")}
RoadmapOffLimits == {Roadmap(MinStages - 1, "one"), Roadmap(MaxStages + 1, "one")}
PortfolioJson == {Json(v) : v \in PortfolioAtLimits \cup PortfolioOffLimits}
RoadmapJson == {Json(v) : v \in RoadmapAtLimits \cup RoadmapOffLimits}

NextSchema ==
  \/ \E token \in AiTokens, param \in RefreshParams : PortfolioStart(token, param)
  \/ \E q \in Suspended, out \in PortfolioJson : PortfolioFinish(q, out)
  \/ \E token \in AiTokens, param \in RefreshParams : RoadmapStart(token, param)
  \/ \E q \in Suspended, out \in RoadmapJson : RoadmapFinish(q, out)

SpecSchema == InitAi /\ [][NextSchema]_vars

\* Refresh requests that run concurrently: the account has its three
\* documents, with or without a stored portfolio and roadmap, the key is
\* set, and MaxReq refresh requests of the account have passed the gates
\* and wait for their completions; every completion is valid, so every
\* request writes.
RefreshToken == SignedToken(HexSub(1))
RefreshPending(op) ==
  GenPending(op, 1, Ctx(RefreshToken, auth(RefreshToken), TRUE),
             <<"createIndex", "findOne", "provider">>)
RaceCompletions(op) ==
  IF op = "portfolio" THEN {Json(PortfolioOne), Json(PortfolioTwo)}
                      ELSE {Json(RoadmapOne), Json(Roadmap(MaxStages, "two"))}

InitRace ==
  /\ \E c \in BOOLEAN :
       users = [id \in UserIds |->
                  IF id = 1 THEN Some(SeedUser(TRUE, TRUE, TRUE, c)) ELSE None]
  /\ clock = 0
  /\ apiKey = TRUE
  /\ \E waiting \in [1..MaxReq -> {"portfolio", "roadmap"}] :
       reqs = BagOfAll(LAMBDA i : RefreshPending(waiting[i]), SetToBag(1..MaxReq))
  /\ resp = NoResponse
  /\ signups = [id \in UserIds |-> None]
  /\ page = PageInit
  /\ lastGen = [id \in UserIds |-> [portfolio |-> None, roadmap |-> None]]
  /\ lastRead = [id \in UserIds |-> None]
  /\ dirty = [id \in UserIds |-> FALSE]

NextRace ==
  \/ \E q \in Suspended, out \in RaceCompletions("portfolio") : PortfolioFinish(q, out)
  \/ \E q \in Suspended, out \in RaceCompletions("roadmap") : RoadmapFinish(q, out)
  \/ SaveProfile(RefreshToken, ProfileB)
  \/ \E body \in BundleAnswers : SavePsychometric(RefreshToken, body)
  \/ AnalysisStep(1, AnalysisB)
  \/ Tick

SpecRace == InitRace /\ [][NextRace]_vars

\* Every writer of the user document together with its readers: the
\* profile, psychometric and analysis saves interleaved with portfolio and
\* roadmap requests that are waiting for their completion, and GET /me.
\* The account starts with nothing saved, or with everything saved and both

\* ---------------------------------------------------------------------
\* The psychometric test page of a visitor whose account has a profile and
\* no answers yet, against POST /user/psychometric and POST /ai/analyze.
InitPage ==
  /\ InitAi
  /\ apiKey = TRUE
  /\ users[1] = Some(SeedUser(TRUE, FALSE, FALSE, FALSE))

\* What localStorage holds when continueToResults runs: no token, the token
\* of the account, the token of a deleted account, an expired token.
PageTokens ==
  {None, Some(SignedToken(HexSub(1))), Some(SignedToken(HexSub(2))),
   Some(BadToken("expired"))}

\* The choices the visitor clicks.
PageChoices(q) == IF q = 1 THEN {"a", "d"} ELSE {"a"}

NextPage ==
  \/ \E choiceId \in PageChoices(CurrentQuestion) : choose(choiceId)
  \/ next
  \/ back
  \/ restart
  \/ \E token \in PageTokens : continueToResults(token)
  \/ SaveAnswered
  \/ \E ok \in BOOLEAN : AnalyzeAnswered(ok, AnalysisA)

SpecPage == InitPage /\ [][NextPage]_vars

\* slots filled.
InitBundle ==
  /\ InitAi
  /\ apiKey = TRUE
  /\ \E c \in BOOLEAN : users[1] = Some(SeedUser(c, c, c, c))

BundleProfiles == {ProfileB}

NextBundle ==
  \/ \E token \in AiTokens : Me(token)
  \/ \E token \in AiTokens, body \in BundleProfiles : SaveProfile(token, body)
  \/ \E token \in AiTokens, body \in BundleAnswers : SavePsychometric(token, body)
  \/ AnalysisStep(1, AnalysisB)
  \/ \E token \in AiTokens, param \in RefreshParams : PortfolioStart(token, param)
  \/ \E q \in Suspended : PortfolioFinish(q, Json(PortfolioTwo))
  \/ \E token \in AiTokens, param \in RefreshParams : RoadmapStart(token, param)
  \/ \E q \in Suspended : RoadmapFinish(q, Json(Roadmap(MaxStages, "two")))
  \/ Tick

SpecBundle == InitBundle /\ [][NextBundle]_vars

\* The per-user endpoints while the store may reject a call.
NextStore ==
  \/ \E token \in AiTokens, param \in RefreshParams : PortfolioStart(token, param)
  \/ \E token \in AiTokens, param \in RefreshParams : RoadmapStart(token, param)
  \/ \E q \in Suspended : PortfolioFinish(q, Json(PortfolioOne))
  \/ \E q \in Suspended : RoadmapFinish(q, Json(RoadmapOne))
  \/ \E q \in Suspended :
       GenFinishStoreRejects(q, IF q.op = "portfolio" THEN Json(PortfolioOne)
                                                      ELSE Json(RoadmapOne))
  \/ \E op \in PerUserOps, token \in AiTokens : StoreRejects(op, token)

SpecStore == InitAi /\ [][NextStore]_vars

\* The catalog endpoints under every combination of query parameters.
\* The process starts against one account, with or without its profile and
\* its analysis; POST /ai/analyze may store another analysis at any time.
CatalogAnalyses == {AnalysisA, AnalysisB}

Blank == <<" ">>
DomainParams ==
  {None, Some(Blank), Some(Blank \o Eng), Some(Med), Some(<<"e", "n", "g">>)}
CourseParams ==
  {None, Some(Blank), Some(<<" ", "C", "S">>), Some(Civil), Some(<<"x">>)}
CategoryParams ==
  {None, Some(Blank), Some(<<"M", "e", "r", " ">>), Some(<<"m", "e", "r">>)}
LevelParams ==
  {None, Some(Blank), Some(<<"P", "G", " ">>), Some(<<"U", "G">>), Some(<<"u", "g">>)}

InitCatalog ==
  /\ \E p \in BOOLEAN, a \in BOOLEAN :
       users = [id \in UserIds |->
                  IF id = 1 THEN Some(SeedUser(p, FALSE, a, FALSE)) ELSE None]
  /\ clock = 0
  /\ apiKey = TRUE
  /\ reqs = EmptyBag
  /\ resp = NoResponse
  /\ signups = [id \in UserIds |-> None]
  /\ page = PageInit
  /\ lastGen = [id \in UserIds |-> [portfolio |-> None, roadmap |-> None]]
  /\ lastRead = [id \in UserIds |-> None]
  /\ dirty = [id \in UserIds |-> FALSE]

NextCatalog ==
  \/ \E token \in UserTokens, domainParam \in DomainParams, courseParam \in CourseParams :
       JobRoles(token, domainParam, courseParam)
  \/ \E token \in UserTokens, courseParam \in CourseParams,
        categoryParam \in CategoryParams, levelParam \in LevelParams :
       Scholarships(token, courseParam, categoryParam, levelParam)
  \/ \E analysis \in CatalogAnalyses : AnalysisStep(1, analysis)

SpecCatalog == InitCatalog /\ [][NextCatalog]_vars

\* ================================================================ properties

SubjectMustBeUserId ==
  (resp.op \in PerUserOps /\ resp.ctx.token \notin UserTokens) =>
     (resp.status = 401 /\ resp.ops = <<>>)

\* Two emails that are equal when the case of their letters is ignored.
EqualIgnoringCase(a, b) == ToLowerCase(a) = ToLowerCase(b)

ValidCredentials ==
  {body \in Credentials : body.email # EmailBad /\ Len(body.password) >= MinPassword}

\* C3: once a signup has succeeded, every later signup whose email is equal
\* to that one ignoring case creates no account, and is answered 409
\* (DuplicateEmail) when its body passes validation, however often it is
\* repeated.
DuplicateSignupRejected ==
  [][\A q \in Suspended :
       (/\ SignupInsert(q)
        /\ \E id \in UserIds :
             /\ IsSome(signups[id])
             /\ EqualIgnoringCase(Get(signups[id]).email, Get(q.body).email)) =>
         /\ resp'.status = 409
         /\ Get(resp'.body) = [error |-> "Email already exists"]
         /\ users' = users]_vars

\* C3 witness: the account was created from the upper-case spelling, and a
\* later signup was answered 409 with one account in the store.
DuplicateSignupWitness ==
  /\ IsSome(signups[1])
  /\ Get(signups[1]).email = EmailAUpper
  /\ ~Exists(2)
  /\ resp.op = "signup"
  /\ resp.status = 409

\* C4: after a signup with a valid email and a password of at least six
\* characters, a login with that email in any letter case and the same
\* password succeeds, and returns the user id the signup returned together
\* with the lower-cased email.
LoginAfterSignup ==
  [][\A body \in ValidCredentials : \A id \in UserIds :
       (/\ IsSome(signups[id])
        /\ EqualIgnoringCase(body.email, Get(signups[id]).email)
        /\ body.password = Get(signups[id]).password
        /\ Login(body)) =>
         /\ resp'.status = 200
         /\ Get(resp'.body).user = Get(signups[id]).user
         /\ Get(resp'.body).user.email = ToLowerCase(body.email)]_vars

\* C4 witness: the signup used the upper-case spelling and a login succeeded.
LoginAfterSignupWitness ==
  /\ IsSome(signups[1])
  /\ Get(signups[1]).email = EmailAUpper
  /\ resp.op = "login"
  /\ resp.status = 200
  /\ Get(resp.body).user.email = EmailA

\* Some account has the email, lower-cased, and the password.
CorrectCredentials(body) ==
  \E id \in UserIds :
    /\ Exists(id)
    /\ Doc(id).email = ToLowerCase(body.email)
    /\ Doc(id).passwordHash = BcryptHash(body.password)

\* C5: a login that fails on its credentials gets the same response, 401
\* with one fixed body, whether no account has the email or an account has
\* it and the password is wrong.
FailedLoginUniform ==
  [][\A body \in ValidCredentials :
       (Login(body) /\ ~CorrectCredentials(body)) =>
         /\ resp'.status = 401
         /\ resp'.body = Some([error |-> "Invalid email or password"])]_vars

\* C5 witness: a login failed on the password of an existing account.
FailedLoginWitness ==
  /\ resp.op = "login"
  /\ resp.status = 401
  /\ resp.ctx.uid # 0

\* C5, the other cause: a login failed with no account in the store.
FailedLoginUnknownWitness ==
  /\ resp.op = "login"
  /\ resp.status = 401
  /\ resp.ctx.uid = 0

\* C6: a psychometric submission of an existing user is stored, and answered
\* 200, exactly when it has between 8 and 10 entries and every value is a
\* non-empty string; with 7 or 11 entries, or with an empty value, it is
\* answered 400 and the stored submission stays as it was.
PsychometricValidation ==
  [][\A token \in UserTokens, body \in AnswerInputs :
       (/\ Exists(ObjectIdOf(token.sub))
        /\ SavePsychometric(token, body)) =>
         LET id == ObjectIdOf(token.sub)
             n == Cardinality(DOMAIN body.answers)
         IN IF n >= 8 /\ n <= 10 /\ \A q \in DOMAIN body.answers : body.answers[q] # ""
              THEN /\ resp'.status = 200
                   /\ Get(users'[id]).psychometric =
                        Some([answers |-> body.answers, submittedAt |-> clock])
              ELSE /\ resp'.status = 400
                   /\ users' = users]_vars

\* C6 witness: a submission was answered 400 while an earlier one is stored.
PsychometricValidationWitness ==
  /\ Exists(1)
  /\ IsSome(Doc(1).psychometric)
  /\ resp.op = "psychometric"
  /\ resp.ctx.uid = 1
  /\ resp.status = 400

GenOps == {"portfolio", "roadmap"}

\* The values of the refresh parameter the handler does and does not read
\* as the refresh directive.
RefreshDirectives == {Some(<<"1">>), Some(<<" ", "1">>)}
PlainReads == RefreshParamsAll \ RefreshDirectives

\* C7: when the slot holds a result and the request carries no refresh
\* directive, the response is the stored data, createdAt and model, the
\* provider is not called and nothing is written, whether or not the
\* provider is configured.
CachedReadVerbatim ==
  [][\A op \in GenOps, token \in AiTokens, param \in PlainReads :
       (/\ Exists(ObjectIdOf(token.sub))
        /\ IsSome(SlotOf(Doc(ObjectIdOf(token.sub)), op))
        /\ GenStart(op, token, param)) =>
         LET entry == Get(SlotOf(Doc(ObjectIdOf(token.sub)), op))
         IN /\ resp'.status = 200
            /\ Get(resp'.body).model = entry.model
            /\ Get(resp'.body).createdAt = entry.createdAt
            /\ IF op = "portfolio"
                 THEN Get(resp'.body).portfolio = entry.data
                 ELSE Get(resp'.body).roadmap = entry.data
            /\ resp'.ops = <<"createIndex", "findOne">>
            /\ users' = users
            /\ reqs' = reqs]_vars

\* C7 witness: a roadmap was served from the cache with no provider
\* configured.
CachedReadWitness ==
  /\ ~apiKey
  /\ resp.op = "roadmap"
  /\ ~resp.ctx.refresh
  /\ resp.status = 200
  /\ resp.ops = <<"createIndex", "findOne">>

\* C8 as stated: any two successful portfolio reads of a user made without
\* refresh return the same payload and the same createdAt, that is, the
\* body of such a read never differs from the body of the one before it.
RepeatedReadsIdentical ==
  [][\A id \in UserIds :
       IsSome(lastRead[id]) => lastRead'[id] = lastRead[id]]_vars

\* C8 amended: two successful portfolio reads of a user made without refresh
\* return the same payload and the same createdAt provided no generation
\* stored a portfolio for that user after the first read returned; a
\* refresh, or a read that found the slot empty and generated, stores one.
RepeatedReadsIdenticalUnlessStored ==
  [][\A id \in UserIds :
       (IsSome(lastRead[id]) /\ ~dirty[id] /\ users'[id] = users[id]) =>
          lastRead'[id] = lastRead[id]]_vars

\* C8 witness: a portfolio generated in this run was read back from the
\* cache, at a later time, with nothing stored since the read before.
RepeatedReadsWitness ==
  /\ IsSome(lastGen[1].portfolio)
  /\ lastRead[1] = lastGen[1].portfolio
  /\ ~dirty[1]
  /\ clock > Get(lastRead[1]).createdAt
  /\ resp.op = "portfolio"
  /\ ~resp.ctx.refresh
  /\ resp.status = 200
  /\ resp.ops = <<"createIndex", "findOne">>

\* The last result generated for the user in the slot, if any.
LastGenerated(id, op) ==
  IF op = "portfolio" THEN lastGen[id].portfolio ELSE lastGen[id].roadmap

\* The user has a profile, a psychometric submission and an analysis.
Ready(user) ==
  IsSome(user.profile) /\ IsSome(user.psychometric) /\ IsSome(user.ai.analysis)

\* C9: a portfolio or roadmap request with refresh=1 of a user who passes
\* the gates goes to the provider whatever the slot holds and however recent
\* it is; a generation that succeeds overwrites the slot with the new data,
\* the time of the write and the model identifier, which are also what it
\* returns; and a read without refresh after it returns exactly the last
\* value generated.
RefreshRegenerates ==
  [][/\ \A op \in GenOps, token \in AiTokens, param \in RefreshDirectives :
          (/\ UNCHANGED <<users, clock>>
           /\ Exists(ObjectIdOf(token.sub))
           /\ Ready(Doc(ObjectIdOf(token.sub)))
           /\ apiKey
           /\ GenStart(op, token, param)) =>
             /\ BagCardinality(reqs') = BagCardinality(reqs) + 1
             /\ \E q \in BagToSet(reqs') :
                  /\ q.op = op
                  /\ q.ctx.refresh
                  /\ q.ops = <<"createIndex", "findOne", "provider">>
                  /\ CopiesIn(q, reqs') = CopiesIn(q, reqs) + 1
             /\ resp' = resp
     /\ \A q \in Suspended :
        \A out \in IF q.op = "portfolio" THEN PortfolioOutputs ELSE RoadmapOutputs :
          (/\ reqs' = Resume(q)
           /\ q.ctx.refresh
           /\ ~out.thrown
           /\ IsSome(out.content)
           /\ IsSome(Get(out.content).json)
           /\ SchemaOk(q.op, Get(Get(out.content).json))
           /\ GenFinish(q, out)) =>
             LET new == [data |-> ParsedData(q.op, Get(Get(out.content).json)),
                         createdAt |-> clock,
                         model |-> AI_MODEL]
             IN /\ SlotOf(Get(users'[q.id]), q.op) = Some(new)
                /\ resp'.status = 200
                /\ Get(resp'.body) = ResultBody(q.op, new.model, new.createdAt, new.data)
     /\ \A op \in GenOps, token \in AiTokens, param \in PlainReads :
          (/\ UNCHANGED <<users, clock>>
           /\ Exists(ObjectIdOf(token.sub))
           /\ IsSome(LastGenerated(ObjectIdOf(token.sub), op))
           /\ GenStart(op, token, param)) =>
             /\ resp'.status = 200
             /\ resp'.body = LastGenerated(ObjectIdOf(token.sub), op)]_vars

\* C9 witness: the slot was seeded at time 0, a refresh regenerated it at a
\* later time with other data, and a read without refresh returned that.
RefreshRegeneratesWitness ==
  /\ resp.op = "portfolio"
  /\ ~resp.ctx.refresh
  /\ resp.status = 200
  /\ resp.ops = <<"createIndex", "findOne">>
  /\ resp.body = lastGen[1].portfolio
  /\ Get(resp.body).createdAt > 0
  /\ Get(resp.body).portfolio = aiPortfolioData(PortfolioTwo)

\* C10: a portfolio or roadmap request that is not served from the cache
\* tests, in this order, the profile, the psychometric submission, the
\* analysis and the provider configuration; the first test that fails
\* decides the response, each with its own error, and the request goes to
\* the provider only when all four pass.
GateOrder ==
  [][\A op \in GenOps, token \in AiTokens, param \in RefreshParamsAll :
       (/\ Exists(ObjectIdOf(token.sub))
        /\ (param \in RefreshDirectives
              \/ ~IsSome(SlotOf(Doc(ObjectIdOf(token.sub)), op)))
        /\ GenStart(op, token, param)) =>
         LET user == Doc(ObjectIdOf(token.sub))
             Fails(status, message) ==
               /\ resp'.status = status
               /\ Get(resp'.body) = [error |-> message]
               /\ "provider" \notin Elems(resp'.ops)
               /\ reqs' = reqs
         IN IF ~IsSome(user.profile)
              THEN Fails(400, "Profile is missing. Save /user/profile first.")
              ELSE IF ~IsSome(user.psychometric)
                THEN Fails(400,
                       "Psychometric answers are missing. Save /user/psychometric first.")
                ELSE IF ~IsSome(user.ai.analysis)
                  THEN Fails(400, "AI analysis is missing. Run POST /ai/analyze first.")
                  ELSE IF ~apiKey
                    THEN Fails(500, "OpenAI API key not configured")
                    ELSE /\ BagCardinality(reqs') = BagCardinality(reqs) + 1
                         /\ \A q \in BagToSet(reqs') :
                              CopiesIn(q, reqs') > CopiesIn(q, reqs) =>
                                q.ops = <<"createIndex", "findOne", "provider">>]_vars

\* C10 witness: with a profile but neither a psychometric submission nor an
\* analysis, the request was refused for the psychometric submission.
GateOrderWitness ==
  /\ IsSome(Doc(1).profile)
  /\ ~IsSome(Doc(1).psychometric)
  /\ ~IsSome(Doc(1).ai.analysis)
  /\ resp.op = "roadmap"
  /\ resp.status = 400
  /\ Get(resp.body) =
       [error |-> "Psychometric answers are missing. Save /user/psychometric first."]

\* The request is not served from the cache: it asks for a refresh or the
\* slot of the user is empty.
Bypass(op, id, param) ==
  param \in RefreshDirectives \/ ~IsSome(SlotOf(Doc(id), op))

\* C11: a generation attempt fails by the first check that fails: without a
\* provider credential 500 and no provider call; otherwise, for what the
\* completion call did, 502 with the provider's message when it threw, 502
\* "empty response" when there is no content (null or the empty string,
\* which is tested before JSON.parse), 502 echoing the raw content when the
\* content is not JSON, and 502 with validation detail when the JSON value
\* does not fit the schema.
FailureTaxonomy ==
  [][/\ \A op \in GenOps, token \in AiTokens, param \in RefreshParams :
          (/\ ~apiKey
           /\ Ready(Doc(ObjectIdOf(token.sub)))
           /\ Bypass(op, ObjectIdOf(token.sub), param)
           /\ GenStart(op, token, param)) =>
             /\ resp'.status = 500
             /\ Get(resp'.body) = [error |-> "OpenAI API key not configured"]
             /\ reqs' = reqs
     /\ \A q \in Suspended : \A out \in Completions(q.op) \ ValidCompletions :
          GenFinish(q, out) =>
            /\ resp'.status = 502
            /\ Get(resp'.body) =
                 CASE out = Failure("throw") -> [error |-> "429 rate limit"]
                   [] out = Failure("throwOther") -> [error |-> "OpenAI request failed"]
                   [] out \in {Failure("empty"), Failure("blank")} ->
                        [error |-> "AI returned an empty response"]
                   [] out = Failure("nonjson") ->
                        [error |-> "AI returned non-JSON output", raw |-> "Sure! Here it is"]
                   [] OTHER ->
                        [error |-> "AI output did not match expected schema",
                         details |-> "flatten"]]_vars

\* C11 witness: a roadmap request was answered 502 with the raw content of
\* a completion that is not JSON.
FailureTaxonomyWitness ==
  /\ resp.op = "roadmap"
  /\ resp.status = 502
  /\ Get(resp.body) = [error |-> "AI returned non-JSON output", raw |-> "Sure! Here it is"]

\* How often x occurs in the sequence xs.
Count(x, xs) == Cardinality({i \in 1..Len(xs) : xs[i] = x})

\* C12: a portfolio or roadmap request calls the provider at most once:
\* exactly once when the user passes the gates, the provider is configured
\* and the cache is bypassed or empty, and not at all otherwise; and
\* whatever the completion call did, the request ends with its response and
\* does not go back to the provider.
SingleProviderCall ==
  [][/\ \A op \in GenOps, token \in AiTokens, param \in RefreshParams :
          GenStart(op, token, param) =>
            IF /\ Ready(Doc(ObjectIdOf(token.sub)))
               /\ apiKey
               /\ Bypass(op, ObjectIdOf(token.sub), param)
              THEN /\ resp' = resp
                   /\ BagCardinality(reqs') = BagCardinality(reqs) + 1
                   /\ \A q \in BagToSet(reqs') : Count("provider", q.ops) = 1
              ELSE /\ reqs' = reqs
                   /\ Count("provider", resp'.ops) = 0
     /\ \A q \in Suspended : \A out \in Completions(q.op) :
          GenFinish(q, out) =>
            /\ Count("provider", resp'.ops) = 1
            /\ BagCardinality(reqs') = BagCardinality(reqs) - 1
            /\ CopiesIn(q, reqs') = CopiesIn(q, reqs) - 1]_vars

\* C12 witness: a refresh whose completion had no content was answered 502
\* after one provider call, and no request is left waiting.
SingleProviderCallWitness ==
  /\ resp.op = "portfolio"
  /\ resp.ctx.refresh
  /\ resp.status = 502
  /\ resp.ops = <<"createIndex", "findOne", "provider">>
  /\ reqs = EmptyBag

\* C13: a portfolio or roadmap request that fails, a refresh included,
\* leaves the users collection as it was: neither a request refused before
\* the provider call (prerequisite missing, provider not configured) nor one
\* whose completion threw, had no content, was not JSON or did not fit the
\* schema writes anything; so a read without refresh still returns the
\* value stored before.
FailureWritesNothing ==
  [][/\ \A op \in GenOps, token \in AiTokens, param \in RefreshParams :
          GenStart(op, token, param) =>
            /\ users' = users
            /\ (~(param \in RefreshDirectives) /\ IsSome(SlotOf(Doc(ObjectIdOf(token.sub)), op))) =>
                 LET entry == Get(SlotOf(Doc(ObjectIdOf(token.sub)), op))
                 IN /\ resp'.status = 200
                    /\ Get(resp'.body) =
                         ResultBody(op, entry.model, entry.createdAt, entry.data)
     /\ \A q \in Suspended :
          \A out \in Completions(q.op) \ ValidCompletions :
            GenFinish(q, out) =>
              /\ resp'.status # 200
              /\ users' = users]_vars

\* C13 witness: a refresh of the portfolio failed at the provider and the
\* slot still holds the portfolio stored at time 0.
FailureWritesNothingWitness ==
  /\ resp.op = "portfolio"
  /\ resp.ctx.refresh
  /\ resp.status = 502
  /\ Doc(1).ai.portfolio = Some(SlotEntry(aiPortfolioData(PortfolioOne), 0))

\* The limits of the strict schema, as the claim states them.
StrictPortfolio(p) ==
  /\ p.strengthSummary # ""
  /\ Len(p.recommendedSkills) \in 3..12
  /\ Len(p.learningFocusAreas) \in 3..12
  /\ Len(p.suggestedProjects) \in 2..10
  /\ \A x \in Elems(p.recommendedSkills) \cup Elems(p.learningFocusAreas)
              \cup Elems(p.suggestedProjects) : x # ""

StrictRoadmap(r) == Len(r.stages) \in 3..8

\* C15: every stored portfolio and every portfolio a request returns has a
\* non-empty strengthSummary, 3 to 12 recommendedSkills, 3 to 12
\* learningFocusAreas and 2 to 10 suggestedProjects, all non-empty strings,
\* and every stored or returned roadmap has 3 to 8 stages: no completion
\* outside these limits is stored.
StoredOutputsValid ==
  /\ \A id \in UserIds :
       Exists(id) =>
         /\ IsSome(Doc(id).ai.portfolio) => StrictPortfolio(Get(Doc(id).ai.portfolio).data)
         /\ IsSome(Doc(id).ai.roadmap) => StrictRoadmap(Get(Doc(id).ai.roadmap).data)
  /\ (resp.op = "portfolio" /\ resp.status = 200) => StrictPortfolio(Get(resp.body).portfolio)
  /\ (resp.op = "roadmap" /\ resp.status = 200) => StrictRoadmap(Get(resp.body).roadmap)

\* C15 witness: a refresh stored and returned the portfolio at the upper
\* limits and the roadmap slot holds the roadmap of eight stages.
StoredOutputsValidWitness ==
  /\ resp.op = "portfolio"
  /\ resp.ctx.refresh
  /\ resp.status = 200
  /\ Get(resp.body).portfolio = aiPortfolioData(PortfolioTwo)
  /\ Get(Doc(1).ai.portfolio).data = aiPortfolioData(PortfolioTwo)
  /\ IsSome(Doc(1).ai.roadmap)
  /\ Len(Get(Doc(1).ai.roadmap).data.stages) = 8

\* The stored entry that a returned body describes.
EntryOf(op, body) ==
  [data |-> IF op = "portfolio" THEN body.portfolio ELSE body.roadmap,
   createdAt |-> body.createdAt,
   model |-> body.model]

\* C14: with refresh requests of one user and slot running concurrently,
\* each of them writing, the slot holds at every moment after a write, and
\* so after all have finished, exactly the data, createdAt and model of the
\* write that happened last: never parts of two results and never a value
\* no request generated.
LastWriteWins ==
  \A id \in UserIds : \A op \in GenOps :
    (Exists(id) /\ IsSome(LastGenerated(id, op))) =>
       SlotOf(Doc(id), op) = Some(EntryOf(op, Get(LastGenerated(id, op))))

\* C14 witness: the two requests that were waiting were both refreshes of
\* the portfolio (the roadmap has not been written), both have finished,
\* and the slot holds what the last of them returned, generated at time 1
\* over a portfolio stored at time 0.
LastWriteWinsWitness ==
  /\ reqs = EmptyBag
  /\ ~IsSome(lastGen[1].roadmap)
  /\ resp.op = "portfolio"
  /\ resp.ctx.refresh
  /\ resp.status = 200
  /\ Get(resp.body).createdAt = 1
  /\ Doc(1).ai.portfolio = Some(EntryOf("portfolio", Get(resp.body)))


\* ------------------------------------------------------------------- C16
\* The catalog documents behind the role views of a response.
RolesOf(body) == [i \in 1..Len(body.jobRoles) |-> JobRolesCol[body.jobRoles[i].id]]

UserOf(token) == ObjectIdOf(auth(token).userId)

\* C16: when GET /ai/job-roles answers for an effective domain D and an
\* effective course-tag set T, every returned role has domain exactly D and,
\* when T is not empty, one of its courseTags in T; when T is empty the
\* returned roles are the first roles of domain D whatever their tags.
JobRoleFilterComposition ==
  [][(resp'.op = "job-roles" /\ resp'.status = 200 /\ UNCHANGED users) =>
     \A returned \in {RolesOf(Get(resp'.body))} :
       \A token \in {resp'.ctx.token}, domainParam \in DomainParams, courseParam \in CourseParams :
         \A D \in {EffectiveDomain(qString(domainParam), Doc(UserOf(token)).ai.analysis)},
            T \in {Elems(EffectiveCourseTags(qString(courseParam),
                                             Doc(UserOf(token)).ai.analysis))} :
           (/\ Get(resp'.body).domain = D
            /\ JobRoles(token, domainParam, courseParam)
            /\ IsSome(D)) =>
             /\ \A r \in Elems(returned) :
                  /\ r.domain = Get(D)
                  /\ T # {} => /\ IsSome(r.courseTags)
                               /\ Elems(Get(r.courseTags)) \cap T # {}
             /\ T = {} =>
                  returned = Take(SelectSeq(JobRolesCol, LAMBDA x : x.domain = Get(D)),
                                  JobRolesLimit)]_vars

\* Roles of one domain were returned, and fewer than the catalog has of that
\* domain although the limit was not reached: the course tags restricted.
JobRoleFilterCompositionWitness ==
  /\ resp.op = "job-roles"
  /\ resp.status = 200
  /\ Get(resp.body).domain = Some(Eng)
  /\ Get(resp.body).count > 0
  /\ Get(resp.body).count < JobRolesLimit
  /\ Get(resp.body).count < Len(SelectSeq(JobRolesCol, LAMBDA x : x.domain = Eng))

\* The tags did not restrict: roles without courseTags were returned.
JobRoleNoTagsWitness ==
  /\ resp.op = "job-roles"
  /\ resp.status = 200
  /\ Get(resp.body).domain = Some(Med)
  /\ \E r \in Elems(RolesOf(Get(resp.body))) : ~IsSome(r.courseTags)

\* ------------------------------------------------------------------- C17
NonBlank(param) == IsSome(param) /\ \E i \in 1..Len(Get(param)) : Get(param)[i] # " "

ResolvedDomain(domainParam, analysis) ==
  IF NonBlank(domainParam)
    THEN Some(Trim(Get(domainParam)))
    ELSE IF IsSome(analysis) THEN Some(Get(analysis).primaryDomain) ELSE None

ResolvedTags(courseParam, analysis) ==
  (IF NonBlank(courseParam) THEN {ToLowerCase(Trim(Get(courseParam)))} ELSE {})
    \cup (IF IsSome(analysis)
            THEN {ToLowerCase(Trim(c.course)) : c \in Elems(Get(analysis).recommendedCourses)}
            ELSE {})

\* C17: when GET /ai/job-roles answers, its domain field is the explicit
\* domain parameter if one was given and the stored analysis's primary
\* domain otherwise, and the roles it returns are the first catalog roles
\* that have this domain and, when the explicit course together with the
\* analysis's course names, each trimmed and lower-cased, is not empty, one
\* of these tags.
JobRoleResolution ==
  [][(resp'.op = "job-roles" /\ resp'.status = 200 /\ UNCHANGED users) =>
     \A returned \in {RolesOf(Get(resp'.body))} :
       \A token \in {resp'.ctx.token}, domainParam \in DomainParams, courseParam \in CourseParams :
         JobRoles(token, domainParam, courseParam) =>
           \A D \in {ResolvedDomain(domainParam, Doc(UserOf(token)).ai.analysis)},
              T \in {ResolvedTags(courseParam, Doc(UserOf(token)).ai.analysis)} :
             /\ Get(resp'.body).domain = D
             /\ returned =
                  Take(SelectSeq(JobRolesCol, LAMBDA r :
                         /\ IsSome(D) => r.domain = Get(D)
                         /\ T # {} => /\ IsSome(r.courseTags)
                                      /\ Elems(Get(r.courseTags)) \cap T # {}),
                       JobRolesLimit)]_vars

\* The explicit domain won over the stored analysis's domain.
JobRoleResolutionWitness ==
  /\ resp.op = "job-roles"
  /\ resp.status = 200
  /\ Get(resp.body).domain = Some(Eng)
  /\ Get(resp.body).count > 0
  /\ IsSome(users[1])
  /\ Doc(1).ai.analysis = Some(AnalysisB)

\* Without a course parameter the tags of the analysis restricted the roles.
JobRoleAnalysisTagsWitness ==
  /\ resp.op = "job-roles"
  /\ resp.status = 200
  /\ Get(resp.body).domain = Some(Med)
  /\ Get(resp.body).count > 0
  /\ \A r \in Elems(RolesOf(Get(resp.body))) :
       IsSome(r.courseTags) /\ Elems(Get(r.courseTags)) \cap {Mech, Civil} # {}

\* ------------------------------------------------------------------- C18
\* C18: for an existing user GET /ai/job-roles answers 400 with the missing
\* analysis error, without querying the catalog, exactly when the user has no
\* stored analysis and the request has neither a non-blank domain nor a
\* non-blank course parameter; in every other case it queries the catalog
\* and answers 200 with at most 30 roles and count equal to their number.
JobRolesPrerequisite ==
  [][(resp'.op = "job-roles" /\ UNCHANGED users) =>
     \A token \in {resp'.ctx.token}, domainParam \in DomainParams, courseParam \in CourseParams :
       (Exists(UserOf(token)) /\ JobRoles(token, domainParam, courseParam)) =>
         IF /\ ~IsSome(Doc(UserOf(token)).ai.analysis)
            /\ ~NonBlank(domainParam)
            /\ ~NonBlank(courseParam)
           THEN /\ resp'.status = 400
                /\ Get(resp'.body) =
                     [error |-> "AI analysis missing. Run POST /ai/analyze or pass ?domain= / ?course=."]
                /\ "find" \notin Elems(resp'.ops)
           ELSE /\ resp'.status = 200
                /\ "find" \in Elems(resp'.ops)
                /\ Len(Get(resp'.body).jobRoles) <= JobRolesLimit
                /\ Get(resp'.body).count = Len(Get(resp'.body).jobRoles)]_vars

\* The limit cut the result: 30 roles returned of a domain that has more.
JobRolesPrerequisiteWitness ==
  /\ resp.op = "job-roles"
  /\ resp.status = 200
  /\ Get(resp.body).count = JobRolesLimit
  /\ IsSome(Get(resp.body).domain)
  /\ Len(SelectSeq(JobRolesCol, LAMBDA x : x.domain = Get(Get(resp.body).domain)))
       > JobRolesLimit

\* The request was refused for the missing analysis.
JobRolesRefusedWitness ==
  /\ resp.op = "job-roles"
  /\ resp.status = 400
  /\ IsSome(users[1])
  /\ ~IsSome(Doc(1).ai.analysis)

\* ------------------------------------------------------------------- C19
ResolvedLevel(levelParam, profile) ==
  IF NonBlank(levelParam)
    THEN Some(Trim(Get(levelParam)))
    ELSE IF IsSome(profile) THEN Some(Get(profile).educationLevel) ELSE None

\* C19: for an existing user GET /scholarships filters on the explicit
\* academicLevel parameter if one was given and on the profile's education
\* level otherwise; it answers 400 with the missing level error exactly when
\* there is neither, and then does not query the catalog.
ScholarshipLevel ==
  [][(resp'.op = "scholarships" /\ UNCHANGED users) =>
     \A token \in {t \in {resp'.ctx.token} : Exists(UserOf(t))} :
       \A courseParam \in
            {c \in CourseParams :
               resp'.status = 200 =>
                 Get(resp'.body).filters.course =
                   EffectiveCourse(qString(c), Doc(UserOf(token)).ai.analysis)},
          categoryParam \in
            {c \in CategoryParams :
               resp'.status = 200 => Get(resp'.body).filters.category = qString(c)},
          levelParam \in LevelParams :
         Scholarships(token, courseParam, categoryParam, levelParam) =>
           \A L \in {ResolvedLevel(levelParam, Doc(UserOf(token)).profile)} :
             IF ~IsSome(L)
               THEN /\ resp'.status = 400
                    /\ Get(resp'.body) =
                         [error |-> "Academic level missing. Save /user/profile or pass ?academicLevel=."]
                    /\ "find" \notin Elems(resp'.ops)
               ELSE /\ resp'.status = 200
                    /\ "find" \in Elems(resp'.ops)
                    /\ Get(resp'.body).filters.academicLevel = Get(L)]_vars

\* The request was refused: no level parameter and no profile.
ScholarshipLevelWitness ==
  /\ resp.op = "scholarships"
  /\ resp.status = 400
  /\ "find" \notin Elems(resp.ops)
  /\ IsSome(users[1])
  /\ ~IsSome(Doc(1).profile)

\* The explicit level won over the level of the profile.
ScholarshipLevelExplicitWitness ==
  /\ resp.op = "scholarships"
  /\ resp.status = 200
  /\ IsSome(users[1])
  /\ IsSome(Doc(1).profile)
  /\ Get(resp.body).filters.academicLevel # Get(Doc(1).profile).educationLevel
  /\ Get(resp.body).count > 0

\* ------------------------------------------------------------------- C20
ScholarshipsOf(body) ==
  [i \in 1..Len(body.scholarships) |-> ScholarshipsCol[body.scholarships[i].id]]

\* C20: when GET /scholarships answers for the effective academic level L,
\* every returned scholarship has academicLevel exactly L; with a category
\* parameter C every returned scholarship has category exactly C, and
\* without one the result is what the level and the course alone select.
ScholarshipFilter ==
  [][(resp'.op = "scholarships" /\ resp'.status = 200 /\ UNCHANGED users) =>
     \A returned \in {ScholarshipsOf(Get(resp'.body))},
        L \in {Get(resp'.body).filters.academicLevel},
        token \in {resp'.ctx.token} :
       \A courseParam \in
            {c \in CourseParams :
               Get(resp'.body).filters.course =
                 EffectiveCourse(qString(c), Doc(UserOf(token)).ai.analysis)},
          levelParam \in
            {l \in LevelParams :
               ResolvedLevel(l, Doc(UserOf(token)).profile) = Some(L)},
          categoryParam \in CategoryParams :
         Scholarships(token, courseParam, categoryParam, levelParam) =>
           /\ \A x \in Elems(returned) : x.academicLevel = L
           /\ NonBlank(categoryParam) =>
                \A x \in Elems(returned) : x.category = Some(Trim(Get(categoryParam)))
           /\ ~NonBlank(categoryParam) =>
                returned =
                  Take(SelectSeq(ScholarshipsCol, LAMBDA x :
                         /\ x.academicLevel = L
                         /\ \A course \in Elems(Get(resp'.body).filters.course) :
                              course # <<>> =>
                                ToLowerCase(Trim(course)) \in Elems(x.courseTags)),
                       ScholarshipsLimit)]_vars

\* A category was supplied and it restricted the result of the level.
ScholarshipFilterWitness ==
  /\ resp.op = "scholarships"
  /\ resp.status = 200
  /\ IsSome(Get(resp.body).filters.category)
  /\ Get(resp.body).count > 0
  /\ \E i \in 1..ScholarshipsCount :
       /\ ScholarshipsCol[i].academicLevel = Get(resp.body).filters.academicLevel
       /\ ScholarshipsCol[i].category # Get(resp.body).filters.category

\* No category was supplied: scholarships with and without one came back.
ScholarshipAnyCategoryWitness ==
  /\ resp.op = "scholarships"
  /\ resp.status = 200
  /\ ~IsSome(Get(resp.body).filters.category)
  /\ \E x, y \in Elems(ScholarshipsOf(Get(resp.body))) :
       IsSome(x.category) /\ ~IsSome(y.category)

\* ------------------------------------------------------------------- C21
ResolvedCourse(courseParam, analysis) ==
  IF NonBlank(courseParam)
    THEN Some(Trim(Get(courseParam)))
    ELSE IF IsSome(analysis) /\ Get(analysis).recommendedCourses # <<>>
      THEN Some(Get(analysis).recommendedCourses[1].course)
      ELSE None

\* C21: when GET /scholarships answers, its course is the explicit course
\* parameter if one was given, else the first course of the stored
\* analysis's recommendations, else absent; with a course every returned
\* scholarship has the trimmed lower-cased course among its courseTags, and
\* without one the result is what the level and the category alone select.
ScholarshipCourse ==
  [][(resp'.op = "scholarships" /\ resp'.status = 200 /\ UNCHANGED users) =>
     \A returned \in {ScholarshipsOf(Get(resp'.body))},
        L \in {Get(resp'.body).filters.academicLevel},
        token \in {resp'.ctx.token} :
       \A levelParam \in
            {l \in LevelParams :
               ResolvedLevel(l, Doc(UserOf(token)).profile) = Some(L)},
          categoryParam \in
            {c \in CategoryParams : Get(resp'.body).filters.category = qString(c)},
          courseParam \in CourseParams :
         Scholarships(token, courseParam, categoryParam, levelParam) =>
           \A course \in {ResolvedCourse(courseParam, Doc(UserOf(token)).ai.analysis)} :
             /\ Get(resp'.body).filters.course = course
             /\ IsSome(course) =>
                  \A x \in Elems(returned) :
                    ToLowerCase(Trim(Get(course))) \in Elems(x.courseTags)
             /\ ~IsSome(course) =>
                  returned =
                    Take(SelectSeq(ScholarshipsCol, LAMBDA x :
                           /\ x.academicLevel = L
                           /\ \A c \in Elems(Get(resp'.body).filters.category) :
                                x.category = Some(c)),
                         ScholarshipsLimit)]_vars

\* Without a course parameter the first course of the analysis restricted
\* the result: scholarships of the level were left out for their tags.
ScholarshipCourseWitness ==
  /\ resp.op = "scholarships"
  /\ resp.status = 200
  /\ Get(resp.body).filters.course = Some(<<"M", "e">>)
  /\ Get(resp.body).count > 0
  /\ \E i \in 1..ScholarshipsCount :
       /\ ScholarshipsCol[i].academicLevel = Get(resp.body).filters.academicLevel
       /\ Mech \notin Elems(ScholarshipsCol[i].courseTags)

\* No course resolved: scholarships of different tags came back.
ScholarshipNoCourseWitness ==
  /\ resp.op = "scholarships"
  /\ resp.status = 200
  /\ ~IsSome(Get(resp.body).filters.course)
  /\ \E x, y \in Elems(ScholarshipsOf(Get(resp.body))) :
       Elems(x.courseTags) \cap Elems(y.courseTags) = {}

\* The explicit course won over the first course of the analysis.
ScholarshipExplicitCourseWitness ==
  /\ resp.op = "scholarships"
  /\ resp.status = 200
  /\ Get(resp.body).filters.course = Some(<<"C", "S">>)
  /\ Get(resp.body).count > 0
  /\ IsSome(users[1])
  /\ Doc(1).ai.analysis = Some(AnalysisA)

\* ------------------------------------------------------------------- C22
\* The request that a transition answered came with a valid token of a user
\* id that no account has.
UnknownUserAnswered ==
  /\ resp' # resp
  /\ resp'.op \in PerUserOps
  /\ resp'.ctx.token \in UserTokens
  /\ ~Exists(UserOf(resp'.ctx.token))

NotFoundOutcome ==
  /\ resp'.status = 404
  /\ Get(resp'.body) = [error |-> "User not found"]
  /\ "provider" \notin Elems(resp'.ops)
  /\ UNCHANGED <<users, reqs>>

\* C22 as stated: a validly authenticated request of any of the seven
\* per-user endpoints for a user id without an account answers 404, writes
\* no document and calls no provider, whatever its body.
NotFoundForUnknownUserAnyBody ==
  [][UnknownUserAnswered => NotFoundOutcome]_vars

\* C22: such a request answers 404, writes no document and calls no
\* provider when its body, for POST /user/profile and POST
\* /user/psychometric, passes the schema; a body that fails the schema is
\* answered 400 before the account is looked up.
NotFoundForUnknownUser ==
  [][UnknownUserAnswered =>
       IF \/ \E body \in GateProfiles :
               ~profileSchema(body) /\ SaveProfile(resp'.ctx.token, body)
          \/ \E body \in GateAnswers :
               ~psychometricSchema(body) /\ SavePsychometric(resp'.ctx.token, body)
         THEN resp'.status = 400 /\ UNCHANGED <<users, reqs>>
         ELSE NotFoundOutcome]_vars

\* Every one of the seven endpoints can be the one that answered 404.
NotFoundForUnknownUserWitness ==
  /\ resp.op = "portfolio"
  /\ resp.status = 404
  /\ resp.ctx.token \in UserTokens
  /\ ~Exists(UserOf(resp.ctx.token))
  /\ \E id \in UserIds : Exists(id)

\* An invalid profile for a user id without an account was answered 400.
InvalidBodyUnknownUserWitness ==
  /\ resp.op = "profile"
  /\ resp.status = 400
  /\ resp.ctx.token \in UserTokens
  /\ ~Exists(UserOf(resp.ctx.token))

\* ------------------------------------------------------------------- C23
\* C23: a request that fails on a rejected store call is answered 500 with
\* an error message: not 502, and not left without a response.
StoreFailureIs500 ==
  [][(resp' # resp /\ "store rejects" \in Elems(resp'.ops)) =>
       /\ resp'.status = 500
       /\ IsSome(resp'.body)]_vars

\* The part of C23 that holds for every build: a rejected store call is
\* never answered 502.
StoreFailureNever502 ==
  [][(resp' # resp /\ "store rejects" \in Elems(resp'.ops)) =>
       resp'.status # 502]_vars

\* ------------------------------------------------------------------- C24
\* C24: a 200 answer of GET /me has the one key user, whose keys are id,
\* email, profile and psychometric: the id and the email of the account, its
\* profile or null, and null or an object with the one key submittedAt. No
\* key carries the password hash, the answers or the ai bundle.
MeShape ==
  [][(resp'.op = "me" /\ resp'.status = 200 /\ UNCHANGED users
        /\ Me(resp'.ctx.token)) =>
       \A body \in {Get(resp'.body)}, doc \in {Doc(UserOf(resp'.ctx.token))} :
         /\ DOMAIN body = {"user"}
         /\ DOMAIN body.user = {"id", "email", "profile", "psychometric"}
         /\ body.user.id = ToHexString(UserOf(resp'.ctx.token))
         /\ body.user.email = doc.email
         /\ body.user.profile = doc.profile
         /\ IsSome(body.user.psychometric) = IsSome(doc.psychometric)
         /\ \A p \in Elems(body.user.psychometric) :
              /\ DOMAIN p = {"submittedAt"}
              /\ p.submittedAt = Get(doc.psychometric).submittedAt]_vars

\* GET /me answered for an account that has answers and a filled ai bundle.
MeShapeWitness ==
  /\ resp.op = "me"
  /\ resp.status = 200
  /\ IsSome(Get(resp.body).user.psychometric)
  /\ IsSome(Get(resp.body).user.profile)
  /\ IsSome(Doc(1).ai.portfolio)
  /\ IsSome(Doc(1).ai.analysis)

\* ------------------------------------------------------------------- C25
\* C25: after a POST /user/profile answered 200 the stored profile is
\* exactly the validated body (its four fields, strings trimmed), whatever
\* profile was stored before; the document's email, password hash,
\* psychometric submission, ai bundle and createdAt are as before,
\* updatedAt is the time of the save, and no other document changed.
ProfileReplaced ==
  [][(resp'.op = "profile" /\ resp'.status = 200) =>
     \A token \in {resp'.ctx.token}, body \in BundleProfiles :
       SaveProfile(token, body) =>
         \A old \in {Doc(UserOf(token))}, new \in {Get(users'[UserOf(token)])} :
           /\ new.profile =
                Some([fullName |-> Trim(body.fullName),
                      age |-> body.age,
                      educationLevel |-> body.educationLevel,
                      interests |-> [i \in 1..Len(body.interests) |->
                                       Trim(body.interests[i])]])
           /\ new = [old EXCEPT !.profile = new.profile, !.updatedAt = clock]
           /\ \A id \in UserIds \ {UserOf(token)} : users'[id] = users[id]]_vars

\* A profile was saved over a different one, on an account with answers and
\* a filled ai bundle, at a later time than the account was last updated.
ProfileReplacedWitness ==
  /\ resp.op = "profile"
  /\ resp.status = 200
  /\ Doc(1).profile = Some(profileData(ProfileB))
  /\ IsSome(Doc(1).psychometric)
  /\ IsSome(Doc(1).ai.portfolio)
  /\ Doc(1).updatedAt > Get(Doc(1).ai.portfolio).createdAt

\* ------------------------------------------------------------------- C26
\* C26: a portfolio or roadmap request that answers 200 changes, in the
\* document as it is at the time of the write, only its own slot and
\* updatedAt: the analysis, the other slot, the profile and the
\* psychometric submission stay as the latest save left them, also a save
\* made while the request was waiting for its completion.
SlotsIndependent ==
  [][(resp'.op \in GenOps /\ resp'.status = 200
        /\ \E q \in Suspended : reqs' = Resume(q)) =>
     \A old \in {Doc(resp'.ctx.uid)}, new \in {Get(users'[resp'.ctx.uid])} :
       /\ new = IF resp'.op = "portfolio"
                  THEN [old EXCEPT !.ai.portfolio = new.ai.portfolio, !.updatedAt = clock]
                  ELSE [old EXCEPT !.ai.roadmap = new.ai.roadmap, !.updatedAt = clock]
       /\ \A id \in UserIds \ {resp'.ctx.uid} : users'[id] = users[id]]_vars

\* A request that had read the user before the profile, the answers and the
\* analysis were saved again has written its slot, and the three saves are
\* still in the document.
SlotsIndependentWitness ==
  /\ resp.op = "portfolio"
  /\ resp.status = 200
  /\ reqs = EmptyBag
  /\ Doc(1).profile = Some(profileData(ProfileB))
  /\ Doc(1).ai.analysis = Some(AnalysisB)
  /\ IsSome(Doc(1).psychometric)
  /\ Get(Doc(1).psychometric).answers = Answers(MaxAnswers, "d").answers
  /\ IsSome(Doc(1).ai.portfolio)
  /\ Get(Doc(1).ai.portfolio).data = Get(resp.body).portfolio

\* ------------------------------------------------------------------- C27
\* C27: in every state an account with a stored portfolio or a stored
\* roadmap has a profile, a psychometric submission and an analysis.
CacheImpliesInputs ==
  \A id \in UserIds :
    (Exists(id) /\ (IsSome(Doc(id).ai.portfolio) \/ IsSome(Doc(id).ai.roadmap))) =>
      /\ IsSome(Doc(id).profile)
      /\ IsSome(Doc(id).psychometric)
      /\ IsSome(Doc(id).ai.analysis)

\* The account that started with nothing saved has a stored portfolio (the
\* account that started with everything has a roadmap as well).
CacheImpliesInputsWitness ==
  /\ Exists(1)
  /\ IsSome(Doc(1).ai.portfolio)
  /\ ~IsSome(Doc(1).ai.roadmap)

\* ------------------------------------------------------------------- C28
\* A POST /user/profile or POST /user/psychometric that answered leaves the
\* ai bundle of every account as it was.
SaveKeepsCache ==
  (resp' # resp /\ resp'.op \in {"profile", "psychometric"}) =>
    \A id \in UserIds : Exists(id) => Get(users'[id]).ai = Doc(id).ai

\* A read without refresh that answered from the cache returns the stored
\* slot: its data, its createdAt and its model.
CachedReadReturnsSlot ==
  (resp' # resp /\ resp'.op \in GenOps /\ resp'.status = 200
     /\ ~resp'.ctx.refresh /\ reqs' = reqs) =>
    /\ IsSome(SlotOf(Doc(resp'.ctx.uid), resp'.op))
    /\ Get(resp'.body) =
         ResultBody(resp'.op, Get(SlotOf(Doc(resp'.ctx.uid), resp'.op)).model,
                    Get(SlotOf(Doc(resp'.ctx.uid), resp'.op)).createdAt,
                    Get(SlotOf(Doc(resp'.ctx.uid), resp'.op)).data)

\* The requests whose successful finish may replace a filled slot.
SlotReplacedOnlyBy(allowed(_)) ==
  \A id \in UserIds, op \in GenOps :
    (Exists(id) /\ IsSome(SlotOf(Doc(id), op))
       /\ SlotOf(Get(users'[id]), op) # SlotOf(Doc(id), op)) =>
      \E q \in Suspended :
        /\ q.id = id
        /\ q.op = op
        /\ allowed(q)
        /\ reqs' = Resume(q)
        /\ resp'.status = 200

\* C28 as stated: a profile or psychometric save leaves the cache alone, a
\* read without refresh returns the stored value with its createdAt, and a
\* stored value is replaced only when a refreshing read succeeds.
CacheSurvivesSavesUntilRefresh ==
  [][/\ SaveKeepsCache
     /\ CachedReadReturnsSlot
     /\ SlotReplacedOnlyBy(LAMBDA q : q.ctx.refresh)]_vars

\* C28: a profile or psychometric save leaves the cache alone, a read
\* without refresh returns the stored value with its createdAt, and a stored
\* value is replaced only when a generating request succeeds: a refreshing
\* read, or a read without refresh that found the slot empty when it
\* started.
CacheSurvivesSaves ==
  [][/\ SaveKeepsCache
     /\ CachedReadReturnsSlot
     /\ SlotReplacedOnlyBy(LAMBDA q : TRUE)]_vars

\* After a new profile and new answers were saved at time 1, a read without
\* refresh answered with the portfolio stored at time 0.
CacheSurvivesSavesWitness ==
  /\ resp.op = "portfolio"
  /\ resp.status = 200
  /\ ~resp.ctx.refresh
  /\ Get(resp.body).createdAt = 0
  /\ Get(resp.body).portfolio = aiPortfolioData(PortfolioOne)
  /\ Doc(1).profile = Some(profileData(ProfileB))
  /\ Get(Doc(1).psychometric).submittedAt = 1

\* ------------------------------------------------------------------- C29
\* No two accounts have the same lower-cased email.
UniqueLowerEmail ==
  \A i \in UserIds, j \in UserIds :
    (Exists(i) /\ Exists(j) /\ i # j) =>
      ToLowerCase(Doc(i).email) # ToLowerCase(Doc(j).email)

\* The accounts whose email, lower-cased, is the lower-cased email.
SameLowerEmail(email) ==
  {id \in UserIds : Exists(id) /\ ToLowerCase(Doc(id).email) = ToLowerCase(email)}

\* A signup that reaches insertOne is answered 201 when no account has its
\* lower-cased email, and then it adds exactly one; it is answered 409 and
\* adds none when an account has it, whatever was in flight beside it.
SignupOneWinner ==
  \A q \in Suspended :
    (q.op = "signup" /\ reqs' = Resume(q)) =>
      \A taken \in {SameLowerEmail(Get(q.body).email)} :
        IF taken = {}
          THEN /\ resp'.op = "signup"
               /\ resp'.status = 201
               /\ \E id \in FreeIds :
                    /\ users' = [users EXCEPT ![id] = users'[id]]
                    /\ IsSome(users'[id])
                    /\ Get(users'[id]).email = ToLowerCase(Get(q.body).email)
          ELSE /\ resp'.op = "signup"
               /\ resp'.status = 409
               /\ users' = users

\* C29: in every reachable state no two accounts have the same lower-cased
\* email, and of the signups for one email, in any letter case and in any
\* interleaving, the one whose insert comes first is answered 201 and every
\* later one 409.
SignupUniqueEmail ==
  [][UniqueLowerEmail' /\ SignupOneWinner]_vars

\* Two signups for one email in different letter case are waiting for
\* insertOne at the same time, and no account has the email yet.
SignupRaceWitness ==
  /\ \E q1 \in Suspended, q2 \in Suspended :
       /\ q1.op = "signup" /\ q2.op = "signup"
       /\ Get(q1.body).email = EmailA
       /\ Get(q2.body).email = EmailAUpper
  /\ SameLowerEmail(EmailA) = {}

\* The signup typed in upper case was answered 409 while the account made
\* by the signup typed in lower case is the only one with that email.
SignupUniqueEmailWitness ==
  /\ resp.op = "signup"
  /\ resp.status = 409
  /\ \E id \in UserIds :
       /\ SameLowerEmail(EmailAUpper) = {id}
       /\ IsSome(signups[id])
       /\ Get(signups[id]).email = EmailA

\* ------------------------------------------------------------------- C30
\* Every question before the current index has an answer.
PrefixAnswered ==
  \A q \in 1..page.index : Answered(page.answers, q)

\* The test is done only when all the questions are answered.
DoneAllAnswered ==
  page.done => \A q \in 1..Total : Answered(page.answers, q)

\* The answers continueToResults submitted: between MinAnswers and MaxAnswers
\* entries, none empty, so they pass the schema of POST /user/psychometric.
SubmittedAnswersValid ==
  IsSome(page.sent) =>
    \A sent \in {Get(page.sent).answers} :
      /\ Cardinality(DOMAIN sent) >= MinAnswers
      /\ Cardinality(DOMAIN sent) <= MaxAnswers
      /\ \A q \in DOMAIN sent : sent[q] # ""
      /\ psychometricSchema([answers |-> sent])

\* The analysis call is made only in the step in which the save of the
\* submitted answers was answered 200 and the answers are in the account.
AnalyzeAfterSave ==
  (page'.pc = "analyze" /\ page.pc # "analyze") =>
    /\ page.pc = "save"
    /\ resp'.op = "psychometric"
    /\ resp'.status = 200
    /\ \A id \in {ObjectIdOf(Get(page.sent).token.sub)} :
         /\ IsSome(users'[id])
         /\ IsSome(Get(users'[id]).psychometric)
         /\ Get(Get(users'[id]).psychometric).answers = Get(page.sent).answers

\* The page stores an analysis only while its analysis call is open.
AnalysisOnlyWhenCalled ==
  (users' # users /\ page'.pc = "results") => page.pc = "analyze"

TestPageInvariant == PrefixAnswered /\ DoneAllAnswered /\ SubmittedAnswersValid

\* C30: after any sequence of choose, next, back and restart every question
\* before the current index has an answer and the test is done only when all
\* the questions are answered; the answers continueToResults submits have
\* between 8 and 10 entries, none empty; and the analysis call is made only
\* after the save of those answers succeeded.
TestPageSubmitsComplete ==
  /\ TestPageInvariant
  /\ [][TestPageInvariant' /\ AnalyzeAfterSave /\ AnalysisOnlyWhenCalled]_vars

\* After a retake in which the first answer was changed, the page saved its
\* ten answers, the analysis was stored and the page went to /results.
TestPageSubmitsCompleteWitness ==
  /\ page.pc = "results"
  /\ IsSome(Doc(1).ai.analysis)
  /\ IsSome(Doc(1).psychometric)
  /\ DOMAIN Get(Doc(1).psychometric).answers = 1..Total
  /\ Get(Doc(1).psychometric).answers[1] = "d"
  /\ resp.op = "psychometric"
  /\ resp.status = 200

\* The visitor pressed Next on a question without an answer and stayed on it.
TestPageTouchedWitness ==
  /\ page.touched
  /\ page.index = 3
  /\ ~Answered(page.answers, 4)

\* A save was refused and the page made no analysis call.
TestPageSaveRefusedWitness ==
  /\ page.pc = "idle"
  /\ page.submitError = Some("User not found")
  /\ resp.status = 404
  /\ ~IsSome(Doc(1).ai.analysis)
====
